---- MODULE Spec2Model ----
(***************************************************************************)
(* State-machine model of the molecule injector (inject/injector.ts) and   *)
(* of the scoper it leases scope tuples from (inject/_internal/scoper.ts). *)
(*                                                                         *)
(* Objects whose identity the code compares (scope tuples, subscription    *)
(* objects, cache entries, cleanup closures) carry an explicit identity.   *)
(***************************************************************************)
EXTENDS Integers, Sequences, FiniteSets, TLC

\* ---------------------------------------------------------------- bounds
\* number of subscription handles a caller holds at the same time
NSubs == 3
\* number of ScopeSubscriptionImpl objects that may be created
MaxSubs == 3
\* number of cache entries (instance ids) that may be created
MaxInst == 8
\* number of nested constructor calls the call stack of the engine holds
MaxStack == 6
\* number of keys in a key sequence handed to a deep cache
MaxKeys == 2
\* number of values the createFn handed to a deep cache creates
MaxCreated == 3

\* ------------------------------------------------------- scope registry
\* Scopes in creation order; "G" is InternalOnlyGlobalScope.
Scopes == <<"G", "S", "T">>

ScopeSet == {Scopes[i] : i \in 1..Len(Scopes)}

\* the scopes callers can name ("G" is private to the injector module)
UserScopes == {"S", "T"}

SortId(s) == CHOOSE i \in 1..Len(Scopes) : Scopes[i] = s

\* every scope of the model is created with the default value 0
DefaultValue(s) == 0

Values == {0, 1, 2}

\* Identities of the tuple arrays callers pass in; 0 is the identity of the
\* memoized scope.defaultTuple array.
TupleIds == {1, 2}

Tuple(s, v, k) == [scope |-> s, value |-> v, id |-> k]

DefaultTuple(s) == Tuple(s, DefaultValue(s), 0)

CallerTuples ==
    {Tuple(s, v, k) : s \in UserScopes, v \in Values, k \in TupleIds}
      \cup {DefaultTuple(s) : s \in UserScopes}

Pair(t) == <<t.scope, t.value>>

Pairs == ScopeSet \X Values

\* ------------------------------------------------------ sequence helpers
Range(seq) == {seq[i] : i \in 1..Len(seq)}

Reverse(seq) == [i \in 1..Len(seq) |-> seq[Len(seq) + 1 - i]]

\* Set.add on an insertion-ordered Set
SetAdd(seq, x) == IF x \in Range(seq) THEN seq ELSE Append(seq, x)

RECURSIVE SetAddAll(_, _)
SetAddAll(seq, xs) ==
    IF xs = <<>> THEN seq ELSE SetAddAll(SetAdd(seq, Head(xs)), Tail(xs))

\* every tuple set is kept, whatever its scope
MapSet_append(tm, t) == Append(tm, t)

\* Map.set on an insertion-ordered Map<scope, tuple>
MapSet(tm, t) ==
    IF \E i \in 1..Len(tm) : tm[i].scope = t.scope
      THEN [i \in 1..Len(tm) |-> IF tm[i].scope = t.scope THEN t ELSE tm[i]]
      ELSE Append(tm, t)

RECURSIVE MapSetAll(_, _)
MapSetAll(tm, ts) ==
    IF ts = <<>> THEN tm ELSE MapSetAll(MapSet(tm, Head(ts)), Tail(ts))

\* --------------------------------------------------------------- scoper
NoRecord == [present |-> FALSE, references |-> {}, cleanups |-> <<>>,
             tuple |-> Tuple("G", 0, 0)]

\* the identity of a ScopeSubscriptionImpl object
SubId(slot, gen) == <<slot, gen>>

getScope(sc, t) == IF sc[Pair(t)].present THEN sc[Pair(t)].tuple ELSE t

getScopes(sc, ts) == [i \in 1..Len(ts) |-> getScope(sc, ts[i])]

\* ScopeSubscriptionImpl.expand: the new __tupleMap and the returned tuples
expand(sc, tm, next) ==
    LET tuples == getScopes(sc, next)
    IN  [tmap |-> MapSetAll(tm, tuples), tuples |-> tuples]

startSubscription(sc, id, t) ==
    IF sc[Pair(t)].present
      THEN [sc EXCEPT ![Pair(t)].references = @ \cup {id}]
      ELSE [sc EXCEPT ![Pair(t)] =
              [present |-> TRUE, references |-> {id}, cleanups |-> <<>>,
               tuple |-> t]]

RECURSIVE startSubscriptions(_, _, _)
startSubscriptions(sc, id, ts) ==
    IF ts = <<>> THEN [sc |-> sc, tuples |-> <<>>]
    ELSE LET sc1 == startSubscription(sc, id, Head(ts))
             rest == startSubscriptions(sc1, id, Tail(ts))
         IN  [sc |-> rest.sc,
              tuples |-> <<sc1[Pair(Head(ts))].tuple>> \o rest.tuples]

\* x stands for anything at all
isMoleculeInterface_any(x) == TRUE

\* a record is dropped as soon as its cleanups are collected
unreferenced_always(references) == TRUE

\* releaseTuples: references.size <= 0 after the delete
unreferenced(references) == references = {}

\* releaseTuples: the records after the release and the cleanups collected
RECURSIVE releaseTuples(_, _, _, _)
releaseTuples(sc, ts, id, acc) ==
    IF ts = <<>> THEN [sc |-> sc, cleanupsToRun |-> acc]
    ELSE LET p == Pair(Head(ts))
             cached == sc[p]
             references == cached.references \ {id}
         IN  IF ~cached.present
               THEN releaseTuples(sc, Tail(ts), id, acc)
             ELSE IF unreferenced(references)
               THEN releaseTuples([sc EXCEPT ![p] = NoRecord], Tail(ts), id,
                                  SetAddAll(acc, cached.cleanups))
             ELSE releaseTuples([sc EXCEPT ![p].references = references],
                                Tail(ts), id, acc)

\* registerCleanups: ok is FALSE when the TypeError is thrown; the cleanups
\* added before the throw stay registered
RECURSIVE registerCleanups(_, _, _)
registerCleanups(sc, scopeKeys, cleanupSet) ==
    IF scopeKeys = <<>> \/ cleanupSet = <<>> THEN [sc |-> sc, ok |-> TRUE]
    ELSE LET p == Pair(Head(scopeKeys))
         IN  IF ~sc[p].present THEN [sc |-> sc, ok |-> FALSE]
             ELSE registerCleanups(
                    [sc EXCEPT ![p].cleanups = SetAddAll(@, cleanupSet)],
                    Tail(scopeKeys), cleanupSet)

\* ------------------------------------------------------------ molecules
\* The constructors of the modelled molecules, as the dependencies they
\* request in call order: <<"scope", s>> is getScope(s), <<"mol", d>> is
\* getMolecule(d), <<"scopeWhen", s, t>> is getScope(s) called only when the
\* value read from scope t is not t's default.
Molecules ==
    {"Plain", "Top", "Left", "Right", "Bottom", "User", "Client",
     "NeedsUnbound", "Cond", "BadMol", "BadScope", "CycleLeft", "CycleRight"}

\* the values of moleculeInterface(); "Junk" is a value that is neither a
\* molecule, an interface nor a scope
Interfaces == {"IBound", "IUnbound"}

Program(m) ==
    CASE m = "Plain"  -> <<>>
      [] m = "Top"    -> << <<"scope", "T">> >>
      [] m = "Left"   -> << <<"mol", "Top">> >>
      [] m = "Right"  -> << <<"mol", "Top">> >>
      [] m = "Bottom" -> << <<"mol", "Top">>, <<"mol", "Left">>,
                            <<"mol", "Right">> >>
      [] m = "User"   -> << <<"scope", "S">>, <<"mol", "Top">> >>
      [] m = "Client" -> << <<"mol", "IBound">> >>
      [] m = "NeedsUnbound" -> << <<"mol", "Top">>, <<"mol", "IUnbound">> >>
      [] m = "Cond"   -> << <<"scope", "T">>, <<"scopeWhen", "S", "T">> >>
      [] m = "BadMol" -> << <<"mol", "Junk">> >>
      [] m = "BadScope" -> << <<"scope", "Junk">> >>
      [] m = "CycleLeft" -> << <<"scope", "T">>, <<"mol", "CycleRight">> >>
      [] m = "CycleRight" -> << <<"mol", "CycleLeft">> >>

\* The onMount callbacks a constructor registers: "fresh" returns a new
\* cleanup closure at every mount, "same" returns one function created by
\* the constructor (onUnmount), "none" returns nothing.
MountedCallbacks(m) ==
    CASE m = "Plain"  -> <<>>
      [] m = "Left"   -> <<"same">>
      [] m = "Right"  -> <<"none">>
      [] OTHER        -> <<"fresh">>

\* the bindings array of the caller that created the injector; the caller
\* keeps the array and may change it
VARIABLE callerBindings

\* A second injector, created by the same createInjector call as the first:
\* the variables of the module hold the state of the injector the caller is
\* calling, otherInjector holds the state of the other one and its number.
VARIABLE otherInjector

\* A deep cache of its own, as createDeepCache() returns it to any caller:
\* the tree of WeakMaps, the number of createFn calls it made, the method
\* called last with its key sequence, the value that call returned and
\* whether it threw.
VARIABLE memoize

\* createInjector({ bindings: [[IBound, Top]] })
BindingsArg == << <<"IBound", "Top">> >>

\* new Map(bindings): the last pair of a key wins
bindingsToMap(arg) ==
    [k \in {arg[i][1] : i \in 1..Len(arg)} |->
       arg[CHOOSE i \in 1..Len(arg) :
             /\ arg[i][1] = k
             /\ \A j \in (i + 1)..Len(arg) : arg[j][1] # k][2]]

\* the injector looks every binding up in the array of its caller
Bindings_shared == bindingsToMap(callerBindings)

\* const bindings of createInjector: the map built when it was created
Bindings == bindingsToMap(BindingsArg)

isMolecule(x) == x \in Molecules

isMoleculeInterface(x) == x \in Interfaces

isMoleculeScope(x) == x \in ScopeSet

\* cleanup closures: <<kind, entry, callback index, mount number>>
PurgeCleanup(inst, mounts) == <<"purge", inst, 0, mounts>>

UserCleanup(inst, j, kind, mounts) ==
    <<"user", inst, j, IF kind = "same" THEN 0 ELSE mounts>>

ExtCleanup(k) == <<"ext", k, 0, 0>>

\* ---------------------------------------------------------- deep cache
\* new WeakMap()
NewWeakMap == [k \in {} |-> 0]

\* an entry of a WeakCache: [WeakCache, TValue] or [WeakCache]; item 0 stands
\* for undefined
NewEntry == [map |-> NewWeakMap, item |-> 0]

createDeepCache ==
    [cache |-> NewWeakMap, created |-> 0, call |-> <<"none", <<>>>>,
     returned |-> 0, threw |-> FALSE]

RECURSIVE getWeakCacheItem(_, _)
getWeakCacheItem(cache, deps) ==
    IF deps = <<>> THEN 0
    ELSE IF Head(deps) \notin DOMAIN cache THEN 0
    ELSE IF Tail(deps) = <<>> THEN cache[Head(deps)].item
    ELSE getWeakCacheItem(cache[Head(deps)].map, Tail(deps))

\* the value lands on the first key and the other keys are ignored
setWeakCacheNode_flat(cache, deps, item) ==
    IF deps = <<>> THEN cache
    ELSE [k \in DOMAIN cache \cup {Head(deps)} |->
            IF k = Head(deps)
              THEN [map |-> IF k \in DOMAIN cache THEN cache[k].map
                            ELSE NewWeakMap,
                    item |-> item]
              ELSE cache[k]]

\* setWeakCacheItem on the tree of WeakMaps
RECURSIVE setWeakCacheNode(_, _, _)
setWeakCacheNode(cache, deps, item) ==
    IF deps = <<>> THEN cache
    ELSE LET dep == Head(deps)
             entry == IF dep \in DOMAIN cache THEN cache[dep] ELSE NewEntry
             next == IF Tail(deps) = <<>>
                       THEN [entry EXCEPT !.item = item]
                       ELSE [entry EXCEPT
                               !.map = setWeakCacheNode(@, Tail(deps), item)]
         IN  [k \in DOMAIN cache \cup {dep} |->
                IF k = dep THEN next ELSE cache[k]]

\* the whole entry of the last key is dropped, its subtree included
removeWeakCacheNode_subtree(cache, deps) ==
    IF deps = <<>> \/ Head(deps) \notin DOMAIN cache THEN cache
    ELSE [k \in DOMAIN cache \ {Head(deps)} |-> cache[k]]

\* removeWeakCacheItem on the tree of WeakMaps
RECURSIVE removeWeakCacheNode(_, _)
removeWeakCacheNode(cache, deps) ==
    IF deps = <<>> THEN cache
    ELSE IF Head(deps) \notin DOMAIN cache THEN cache
    ELSE IF Tail(deps) = <<>>
      THEN [cache EXCEPT ![Head(deps)].item = 0]
    ELSE [cache EXCEPT
            ![Head(deps)].map = removeWeakCacheNode(@, Tail(deps))]

\* nothing is looked up: createFn is called on every call
deepCache_unkeyed(memo, deps) ==
    [memo EXCEPT !.created = @ + 1, !.returned = memo.created + 1,
                 !.threw = FALSE, !.call = <<"deepCache", deps>>,
                 !.cache = setWeakCacheNode(@, deps, memo.created + 1)]

\* DeepCache.deepCache(createFn, foundFn, deps) with a createFn that returns
\* a new value on each call
deepCache(memo, deps) ==
    IF Len(deps) = 0
      THEN [memo EXCEPT !.threw = TRUE, !.returned = 0,
                        !.call = <<"deepCache", deps>>]
    ELSE LET cachedValue == getWeakCacheItem(memo.cache, deps)
         IN  IF cachedValue # 0
               THEN [memo EXCEPT !.returned = cachedValue, !.threw = FALSE,
                                 !.call = <<"deepCache", deps>>]
               ELSE [memo EXCEPT
                       !.created = @ + 1, !.returned = memo.created + 1,
                       !.threw = FALSE, !.call = <<"deepCache", deps>>,
                       !.cache = setWeakCacheNode(@, deps, memo.created + 1)]

\* DeepCache.upsert(createFn, deps), createFn as above
upsert(memo, deps) ==
    IF Len(deps) = 0
      THEN [memo EXCEPT !.threw = TRUE, !.returned = 0,
                        !.call = <<"upsert", deps>>]
    ELSE [memo EXCEPT
            !.created = @ + 1, !.returned = 0, !.threw = FALSE,
            !.call = <<"upsert", deps>>,
            !.cache = setWeakCacheNode(@, deps, memo.created + 1)]

\* DeepCache.remove(...deps)
remove(memo, deps) ==
    [memo EXCEPT !.cache = removeWeakCacheNode(@, deps), !.returned = 0,
                 !.threw = FALSE, !.call = <<"remove", deps>>]

\* DeepCache.get(deps)
get(memo, deps) ==
    [memo EXCEPT !.returned = getWeakCacheItem(memo.cache, deps),
                 !.threw = FALSE, !.call = <<"get", deps>>]

\* The injector's moleculeCache is kept as the map from each key sequence to
\* the value getWeakCacheItem finds under it.
EmptyCache == [p \in {} |-> 0]

\* getWeakCacheItem; 0 stands for undefined
CacheGet(cache, deps) == IF deps \in DOMAIN cache THEN cache[deps] ELSE 0

setWeakCacheItem(cache, deps, item) ==
    [p \in DOMAIN cache \cup {deps} |-> IF p = deps THEN item ELSE cache[p]]

removeWeakCacheItem(cache, deps) ==
    [p \in DOMAIN cache \ {deps} |-> cache[p]]

\* ------------------------------------------------------------- injector
\* insertion of t into a list sorted by SortId, after its equals (the sort
\* is stable)
RECURSIVE SortInsert(_, _)
SortInsert(sorted, t) ==
    IF sorted = <<>> THEN <<t>>
    ELSE IF SortId(t.scope) < SortId(Head(sorted).scope)
      THEN <<t>> \o sorted
    ELSE <<Head(sorted)>> \o SortInsert(Tail(sorted), t)

RECURSIVE scopeTupleSort(_)
\* the tuples stay in the order of the call
scopeTupleSort_unsorted(arr) == arr

scopeTupleSort(arr) ==
    IF arr = <<>> THEN <<>>
    ELSE SortInsert(scopeTupleSort(SubSeq(arr, 1, Len(arr) - 1)),
                    arr[Len(arr)])

\* the path names the molecule alone
getCachePath_molOnly(scopes, mol) == <<mol>>

\* the path keeps the tuples that carry the default value
getCachePath_withDefaults(scopes, mol) == <<mol>> \o scopeTupleSort(scopes)

getCachePath(scopes, mol) ==
    LET nonDefaultScopes ==
          SelectSeq(scopes, LAMBDA s : DefaultValue(s.scope) # s.value)
    IN  <<mol>> \o scopeTupleSort(nonDefaultScopes)

\* an interface without a binding falls back to some molecule
getTrueMolecule_fallback(molOrIntf) ==
    IF molOrIntf \in DOMAIN Bindings THEN Bindings[molOrIntf]
    ELSE IF isMolecule(molOrIntf) THEN molOrIntf
    ELSE "Plain"

\* getTrueMolecule; "unbound" stands for the throw of ErrorUnboundMolecule
getTrueMolecule(molOrIntf) ==
    IF molOrIntf \in DOMAIN Bindings THEN Bindings[molOrIntf]
    ELSE IF isMolecule(molOrIntf) THEN molOrIntf
    ELSE "unbound"

NoDeps == [known |-> FALSE, scopes |-> {}]

\* lease of lazyUse: sub.expand([tuple]) on the caller's subscription
lease(sc, st, tuple) == [st EXCEPT !.tmap = expand(sc, @, <<tuple>>).tmap]

\* no default tuple is leased
leaseDefaults_none(sc, st, defaultScopes) == st

\* getInternal and runAndCache: props.lease(s.defaultTuple) for each scope
\* of the entry's defaultScopes
RECURSIVE leaseDefaults(_, _, _)
leaseDefaults(sc, st, defaultScopes) ==
    IF defaultScopes = <<>> THEN st
    ELSE leaseDefaults(sc, lease(sc, st, DefaultTuple(Head(defaultScopes))),
                       Tail(defaultScopes))

\* getScopeValue of runAndCache: TRUE when the scope's default is used
usesDefault(scopes, scope) ==
    LET found == SelectSeq(scopes, LAMBDA t : t.scope = scope)
    IN  found = <<>> \/ Head(found).value = DefaultValue(scope)

\* every scope reads as its default value
getScopeValue_default(scopes, scope) == DefaultValue(scope)

\* getScopeValue of runAndCache: the value handed to the constructor
getScopeValue(scopes, scope) ==
    IF usesDefault(scopes, scope) THEN DefaultValue(scope)
    ELSE Head(SelectSeq(scopes, LAMBDA t : t.scope = scope)).value

RECURSIVE getInternal(_, _, _, _, _)
RECURSIVE runAndCache(_, _, _, _)
RECURSIVE runMolecule(_, _, _, _, _)

\* The thread of state through one resolution: st = [cache, entries,
\* depCache, tmap, err]; the result adds cv, the entry returned.
getInternal(sc, st, m, scopes, previous) ==
    LET cachedDeps == st.depCache[m]
        relevantScopes ==
          SelectSeq(scopes, LAMBDA t : t.scope \in cachedDeps.scopes)
        deps == getCachePath(relevantScopes, m)
        cachedValue == IF cachedDeps.known THEN CacheGet(st.cache, deps) ELSE 0
    IN  IF cachedValue # 0
          THEN [st |-> leaseDefaults(sc, st,
                          st.entries[cachedValue].deps.defaultScopes),
                cv |-> cachedValue]
        ELSE IF previous # 0
          THEN LET path == st.entries[previous].path
                   found == CacheGet(st.cache, path)
               IN  IF found # 0 THEN [st |-> st, cv |-> found]
                   ELSE [st |-> [st EXCEPT !.cache =
                                   setWeakCacheItem(@, path, previous)],
                         cv |-> previous]
        ELSE runAndCache(sc, st, m, scopes)

\* use(dep) of runMolecule for a molecule, r being what getMoleculeValue
\* returned: the scopes of the dependency are added and it becomes a buddy;
\* nothing is recorded when getMoleculeValue threw
InternalUse(acc, r) ==
    IF r.st.err # "none" THEN [acc EXCEPT !.st = r.st]
    ELSE [st |-> r.st,
          value |-> acc.value,
          allScopes |-> acc.allScopes \cup r.st.entries[r.cv].deps.allScopes,
          defaultScopes |->
            SetAddAll(acc.defaultScopes,
                      r.st.entries[r.cv].deps.defaultScopes),
          buddies |-> Append(acc.buddies, r.cv)]

\* runMolecule: acc = [st, value, allScopes, defaultScopes, buddies] after
\* the steps of the constructor that remain in prog; value is what the
\* constructor returns, the scope values it has read
runMolecule(sc, acc, prog, scopes, previous) ==
    IF prog = <<>> \/ acc.st.err # "none" THEN acc
    ELSE LET dep == Head(prog)[2]
             skipped == /\ Head(prog)[1] = "scopeWhen"
                        /\ getScopeValue(scopes, Head(prog)[3])
                             = DefaultValue(Head(prog)[3])
         IN  IF skipped THEN runMolecule(sc, acc, Tail(prog), scopes, previous)
             ELSE IF Head(prog)[1] \in {"scope", "scopeWhen"}
               THEN IF ~isMoleculeScope(dep)
                      THEN [acc EXCEPT !.st.err = "InvalidScope"]
                    ELSE runMolecule(sc,
                      [acc EXCEPT
                         !.value =
                            IF dep = "G" THEN @
                            ELSE Append(@, <<dep, getScopeValue(scopes, dep)>>),
                         !.allScopes = @ \cup {dep},
                         !.defaultScopes =
                            IF usesDefault(scopes, dep) THEN SetAdd(@, dep)
                            ELSE @],
                      Tail(prog), scopes, previous)
             ELSE IF ~isMolecule(dep) /\ ~isMoleculeInterface(dep)
               THEN [acc EXCEPT !.st.err = "InvalidMolecule"]
             ELSE IF getTrueMolecule(dep) = "unbound"
               THEN [acc EXCEPT !.st.err = "UnboundMolecule"]
             ELSE runMolecule(sc,
                    InternalUse(acc, getInternal(sc, acc.st, getTrueMolecule(dep),
                                             scopes, previous)),
                    Tail(prog), scopes, previous)

\* every tuple of the call keys the entry
relatedScope_all(scopes, allScopes) == scopes

\* runAndCache: the tuples of the scopes the constructor depended on
relatedScope(scopes, allScopes) ==
    SelectSeq(scopes, LAMBDA t : t.scope \in allScopes)

\* the capabilities stay usable after the constructor call
runningAfterFinally_kept == TRUE

\* runMolecule, finally: running = false; the flag is read by the two
\* capabilities handed to the constructor call
runningAfterFinally == FALSE

\* the scopes of every construction are accepted
conditional_never(cachedDeps, allScopes) == FALSE

\* runAndCache: the scopes the constructor touched differ in size or members
\* from those recorded at the molecule's first construction
conditional(cachedDeps, allScopes) ==
    \/ Cardinality(allScopes) # Cardinality(cachedDeps.scopes)
    \/ \E s \in allScopes : s \notin cachedDeps.scopes

\* the scopes of the latest construction replace the recorded ones
compareAndRecord_latest(st1, m, allScopes) ==
    IF st1.err # "none" THEN st1
    ELSE [st1 EXCEPT !.depCache[m] = [known |-> TRUE, scopes |-> allScopes]]

\* runAndCache after runMolecule has returned: the scopes of the
\* construction are compared with the ones dependencyCache holds for m, and
\* recorded when it holds none; st1.err is set when runMolecule threw
compareAndRecord(st1, m, allScopes) ==
    IF st1.err # "none" THEN st1
    ELSE IF st1.depCache[m].known /\ conditional(st1.depCache[m], allScopes)
      THEN [st1 EXCEPT !.err = "ConditionalDependency"]
    ELSE [st1 EXCEPT !.depCache[m] =
            IF @.known THEN @ ELSE [known |-> TRUE, scopes |-> allScopes]]

\* runAndCache after runMolecule has returned mounted: the comparison with
\* dependencyCache, then multiCache, which returns the entry found at the
\* path or stores the created one
multiCache(sc, m, scopes, mounted) ==
    LET st1 == mounted.st
        deps == getCachePath(relatedScope(scopes, mounted.allScopes), m)
        cached == CacheGet(st1.cache, deps)
        instanceId == Len(st1.entries) + 1
        created ==
          [mol |-> m,
           deps |-> [allScopes |-> mounted.allScopes,
                     buddies |-> Reverse(mounted.buddies),
                     defaultScopes |-> mounted.defaultScopes,
                     mountedCallbacks |-> MountedCallbacks(m)],
           instanceId |-> instanceId + Len(otherInjector.entries),
           value |-> mounted.value,
           isMounted |-> FALSE,
           running |-> runningAfterFinally,
           mounts |-> 0,
           path |-> deps]
        st2 == compareAndRecord(st1, m, mounted.allScopes)
    IN  IF st2.err # "none" THEN [st |-> st2, cv |-> 0]
        ELSE IF cached # 0
          THEN [st |-> leaseDefaults(sc, st2,
                          st2.entries[cached].deps.defaultScopes),
                cv |-> cached]
        ELSE LET st3 == leaseDefaults(sc, st2, mounted.defaultScopes)
             IN  [st |-> [st3 EXCEPT
                            !.entries = Append(@, created),
                            !.cache = setWeakCacheItem(@, deps, instanceId)],
                  cv |-> instanceId]

\* onMountImpl.push(...); useImpl.push(use): the two stacks that onMount()
\* and use() read while a constructor runs, an element named by its molecule
pushImpl(st, m) ==
    [st EXCEPT !.onMountImpl = Append(@, m), !.useImpl = Append(@, m)]

\* the stacks keep the elements of a finished constructor call
finally_kept(acc) == acc

\* runMolecule, finally: onMountImpl.pop(); useImpl.pop()
finally(acc) ==
    [acc EXCEPT !.st.onMountImpl = SubSeq(@, 1, Len(@) - 1),
                !.st.useImpl = SubSeq(@, 1, Len(@) - 1)]

\* runMolecule from the push of the stacks to the finally block: the
\* constructor has returned, or has thrown when st.err is set
\* the recursion is cut where the call stack is full: the constructor call
\* returns without its remaining dependencies
construct_cut(sc, st, m, scopes) ==
    IF Len(st.useImpl) >= MaxStack
      THEN [st |-> st, value |-> <<>>, allScopes |-> {"G"},
            defaultScopes |-> <<"G">>, buddies |-> <<>>]
    ELSE finally(runMolecule(sc,
                   [st |-> pushImpl(st, m), value |-> <<>>, allScopes |-> {},
                    defaultScopes |-> <<>>, buddies |-> <<>>],
                   << <<"scope", "G">> >> \o Program(m), scopes, 0))

\* a call made when the call stack of the engine is full throws a
\* RangeError; every constructor call in progress holds one element of
\* useImpl
construct(sc, st, m, scopes) ==
    IF Len(st.useImpl) >= MaxStack
      THEN [st |-> [st EXCEPT !.err = "RangeError"], value |-> <<>>,
            allScopes |-> {}, defaultScopes |-> <<>>, buddies |-> <<>>]
    ELSE finally(runMolecule(sc,
                   [st |-> pushImpl(st, m), value |-> <<>>, allScopes |-> {},
                    defaultScopes |-> <<>>, buddies |-> <<>>],
                   << <<"scope", "G">> >> \o Program(m), scopes, 0))

runAndCache(sc, st, m, scopes) ==
    multiCache(sc, m, scopes, construct(sc, st, m, scopes))

\* the cleanups runMount collects from the mount callbacks of an entry,
\* followed by the cleanup that purges the entry
cleanupSetOf(inst, mol) ==
    LET cbs == mol.deps.mountedCallbacks
        returned == SelectSeq([j \in 1..Len(cbs) |-> <<j, cbs[j]>>],
                              LAMBDA c : c[2] # "none")
        user == [i \in 1..Len(returned) |->
                   UserCleanup(inst, returned[i][1], returned[i][2],
                               mol.mounts)]
    IN  SetAdd(SetAddAll(<<>>, user), PurgeCleanup(inst, mol.mounts))

RECURSIVE runMount(_, _)
RECURSIVE runMountAll(_, _)

\* the entry's own callbacks run, and its cleanups are registered, before
\* its dependencies are mounted
runMount_own_first(ms, inst) ==
    IF ~ms.ok \/ ms.entries[inst].isMounted THEN ms
    ELSE LET ms1 == [ms EXCEPT !.entries[inst].isMounted = TRUE,
                               !.entries[inst].mounts = @ + 1]
             mol == ms1.entries[inst]
             cleanupSet == cleanupSetOf(inst, mol)
             usedDefaultScopes ==
               [i \in 1..Len(mol.deps.defaultScopes) |->
                  DefaultTuple(mol.deps.defaultScopes[i])]
             r1 == registerCleanups(ms1.sc, usedDefaultScopes, cleanupSet)
             r2 == registerCleanups(r1.sc, Tail(mol.path), cleanupSet)
         IN  IF ~r1.ok THEN [ms1 EXCEPT !.sc = r1.sc, !.ok = FALSE]
             ELSE IF ~r2.ok THEN [ms1 EXCEPT !.sc = r2.sc, !.ok = FALSE]
             ELSE runMountAll([ms1 EXCEPT !.sc = r2.sc], mol.deps.buddies)

\* the callbacks of an entry run at every runMount, mounted or not
runMount_remount(ms, inst) ==
    IF ~ms.ok THEN ms
    ELSE LET ms1 == [ms EXCEPT !.entries[inst].isMounted = TRUE,
                               !.entries[inst].mounts = @ + 1]
             ms2 == runMountAll(ms1, ms1.entries[inst].deps.buddies)
             mol == ms2.entries[inst]
             cleanupSet == cleanupSetOf(inst, mol)
             usedDefaultScopes ==
               [i \in 1..Len(mol.deps.defaultScopes) |->
                  DefaultTuple(mol.deps.defaultScopes[i])]
             r1 == registerCleanups(ms2.sc, usedDefaultScopes, cleanupSet)
             r2 == registerCleanups(r1.sc, Tail(mol.path), cleanupSet)
         IN  IF ~ms2.ok THEN ms2
             ELSE IF ~r1.ok THEN [ms2 EXCEPT !.sc = r1.sc, !.ok = FALSE]
             ELSE [ms2 EXCEPT !.sc = r2.sc, !.ok = r2.ok]

\* ms = [entries, sc, ok]; ok is FALSE once registerCleanups has thrown
runMount(ms, inst) ==
    IF ~ms.ok \/ ms.entries[inst].isMounted THEN ms
    ELSE LET ms1 == [ms EXCEPT !.entries[inst].isMounted = TRUE,
                               !.entries[inst].mounts = @ + 1]
             ms2 == runMountAll(ms1, ms1.entries[inst].deps.buddies)
             mol == ms2.entries[inst]
             cleanupSet == cleanupSetOf(inst, mol)
             usedDefaultScopes ==
               [i \in 1..Len(mol.deps.defaultScopes) |->
                  DefaultTuple(mol.deps.defaultScopes[i])]
             r1 == registerCleanups(ms2.sc, usedDefaultScopes, cleanupSet)
             usedScopes == Tail(mol.path)
             r2 == registerCleanups(r1.sc, usedScopes, cleanupSet)
         IN  IF ~ms2.ok THEN ms2
             ELSE IF ~r1.ok THEN [ms2 EXCEPT !.sc = r1.sc, !.ok = FALSE]
             ELSE [ms2 EXCEPT !.sc = r2.sc, !.ok = r2.ok]

runMountAll(ms, buddies) ==
    IF buddies = <<>> THEN ms
    ELSE runMountAll(runMount(ms, Head(buddies)), Tail(buddies))

\* One cleanup callback being called: the purge cleanup of runMount clears
\* the entry's slot and its mounted flag; other callbacks touch no state of
\* the injector.  cs = [cache, entries, cleanupsRun, runCount]
callCleanup(cs, cb) ==
    LET counted == [cs EXCEPT
                      !.runCount =
                         [c \in DOMAIN cs.runCount \cup {cb} |->
                            IF c = cb
                              THEN (IF cb \in DOMAIN cs.runCount
                                      THEN cs.runCount[cb] ELSE 0) + 1
                              ELSE cs.runCount[c]]]
    IN  IF cb[1] = "purge"
          THEN [counted EXCEPT
                  !.cache = removeWeakCacheItem(@, cs.entries[cb[2]].path),
                  !.entries[cb[2]].isMounted = FALSE]
          ELSE counted

\* every collected callback is called
hasRun_never(run, cb) == FALSE

\* stopSubscription: cleanupsRun.has(cb)
hasRun(run, cb) == cb \in run

\* the forEach of stopSubscription over the reversed cleanups
RECURSIVE runCleanups(_, _)
runCleanups(cs, cbs) ==
    IF cbs = <<>> THEN cs
    ELSE IF hasRun(cs.cleanupsRun, Head(cbs))
      THEN runCleanups(cs, Tail(cbs))
    ELSE runCleanups(
           [callCleanup(cs, Head(cbs)) EXCEPT
              !.cleanupsRun = @ \cup {Head(cbs)}],
           Tail(cbs))

\* ---------------------------------------------------------------- state
VARIABLES
    scopeCache,             \* scoper: (scope, value) -> lease record
    cleanupsRun,            \* scoper: cleanups that have been called
    releasedSubscriptions,  \* scoper: ScopeSubscriptionImpl objects stopped
    subs,                   \* the subscriptions of createSubscription
    moleculeCache,          \* injector: path -> entry (instance id)
    dependencyCache,        \* injector: molecule -> scopes it depends on
    entries,                \* the MoleculeCacheValue objects, by instance id
    msubs,                  \* the closures of lazyUse, one per handle
    runCount,               \* how often each cleanup callback was called
    thrown                  \* the error the last call on the injector threw

vars == <<scopeCache, cleanupsRun, releasedSubscriptions, subs, moleculeCache,
          dependencyCache, entries, msubs, runCount, thrown, callerBindings,
          otherInjector, memoize>>

Slots == 1..NSubs

NoSub == [kind |-> "none", gen |-> 0, tmap |-> <<>>, stopped |-> FALSE]

NoMsub == [state |-> "NONE", mol |-> "Plain", scopes |-> <<>>,
           cacheValue |-> 0, lazy |-> FALSE, pinned |-> FALSE]

\* the state of createInjector's closure when it returns, of the injector
\* with this number
NewInjector(id) ==
    [id |-> id,
     scopeCache |-> [p \in Pairs |-> NoRecord],
     cleanupsRun |-> {},
     releasedSubscriptions |-> {},
     subs |-> [s \in Slots |-> NoSub],
     moleculeCache |-> EmptyCache,
     dependencyCache |-> [m \in Molecules |-> NoDeps],
     entries |-> <<>>,
     msubs |-> [s \in Slots |-> NoMsub],
     runCount |-> [c \in {} |-> 0]]

Init ==
    /\ scopeCache = [p \in Pairs |-> NoRecord]
    /\ cleanupsRun = {}
    /\ releasedSubscriptions = {}
    /\ subs = [s \in Slots |-> NoSub]
    /\ moleculeCache = EmptyCache
    /\ dependencyCache = [m \in Molecules |-> NoDeps]
    /\ entries = <<>>
    /\ msubs = [s \in Slots |-> NoMsub]
    /\ runCount = [c \in {} |-> 0]
    /\ thrown = "none"
    /\ callerBindings = BindingsArg
    /\ otherInjector = NewInjector(2)
    /\ memoize = createDeepCache

\* A caller takes a handle it does not hold yet, or lets go of one that
\* holds no lease; handles are interchangeable, so the lowest unused one is
\* taken first.
RECURSIVE Sum(_, _)
Sum(f, S) ==
    IF S = {} THEN 0
    ELSE LET x == CHOOSE y \in S : TRUE IN f[x] + Sum(f, S \ {x})

\* a new ScopeSubscriptionImpl may be created
CanCreate == Sum([s \in Slots |-> subs[s].gen], Slots) < MaxSubs

Free(slot) ==
    /\ CanCreate
    /\ ~msubs[slot].pinned
    /\ \/ /\ subs[slot].kind = "none"
          /\ \A o \in Slots : o < slot => subs[o].kind # "none"
       \/ /\ subs[slot].kind = "mol"
          /\ msubs[slot].state \in {"INITIAL", "STOPPED"}
          /\ \A o \in Slots : subs[o].kind # "none"
       \/ /\ subs[slot].kind = "scopes"
          /\ subs[slot].stopped
          /\ \A o \in Slots : subs[o].kind # "none"

\* stopSubscription without the check of releasedSubscriptions
stopSubscription_again(slot) ==
    LET id == SubId(slot, subs[slot].gen)
        rel == releaseTuples(scopeCache, subs[slot].tmap, id, <<>>)
        cs == runCleanups(
                [cache |-> moleculeCache, entries |-> entries,
                 cleanupsRun |-> cleanupsRun, runCount |-> runCount],
                Reverse(rel.cleanupsToRun))
    IN  /\ releasedSubscriptions' = releasedSubscriptions \cup {id}
        /\ scopeCache' = rel.sc
        /\ moleculeCache' = cs.cache
        /\ entries' = cs.entries
        /\ cleanupsRun' = cs.cleanupsRun
        /\ runCount' = cs.runCount

\* stopSubscription for the ScopeSubscriptionImpl of a handle
stopSubscription(slot) ==
    LET id == SubId(slot, subs[slot].gen)
        rel == releaseTuples(scopeCache, subs[slot].tmap, id, <<>>)
        cs == runCleanups(
                [cache |-> moleculeCache, entries |-> entries,
                 cleanupsRun |-> cleanupsRun, runCount |-> runCount],
                Reverse(rel.cleanupsToRun))
    IN  IF id \in releasedSubscriptions
          THEN UNCHANGED <<releasedSubscriptions, scopeCache, moleculeCache,
                           entries, cleanupsRun, runCount>>
          ELSE /\ releasedSubscriptions' = releasedSubscriptions \cup {id}
               /\ scopeCache' = rel.sc
               /\ moleculeCache' = cs.cache
               /\ entries' = cs.entries
               /\ cleanupsRun' = cs.cleanupsRun
               /\ runCount' = cs.runCount

\* start() that never replaces the ScopeSubscriptionImpl: after a stop() the
\* released object is started again
subStart_same(sub, slot, sc) ==
    LET internal == [sub EXCEPT !.stopped = FALSE]
        started == startSubscriptions(sc, SubId(slot, internal.gen),
                                      internal.tmap)
    IN  [sub |-> internal, sc |-> started.sc, tuples |-> started.tuples]

\* createSubscription().start(): the subscription after the call, the lease
\* records and the tuples returned
subStart(sub, slot, sc) ==
    LET restarted == [sub EXCEPT !.stopped = FALSE, !.gen = @ + 1,
                        !.tmap = expand(sc, <<>>, sub.tmap).tmap]
        internal == IF sub.stopped THEN restarted ELSE sub
        started == startSubscriptions(sc, SubId(slot, internal.gen),
                                      internal.tmap)
    IN  [sub |-> internal, sc |-> started.sc, tuples |-> started.tuples]

\* lazyUse up to its return: the subscription, the first getInternal; lazy
\* tells whether the caller is handed start (useLazily) or only stop (use),
\* pinned that it is handed neither (get)
lazyUse(slot, m, scopes) ==
    LET sub == [kind |-> "mol", gen |-> subs[slot].gen + 1, tmap |-> <<>>,
                stopped |-> FALSE]
        expanded == expand(scopeCache, sub.tmap, scopes)
        bound == getTrueMolecule(m)
        st0 == [cache |-> moleculeCache, entries |-> entries,
                depCache |-> dependencyCache, tmap |-> expanded.tmap,
                err |-> "none",
                onMountImpl |-> <<>>, useImpl |-> <<>>]
        r == IF ~isMolecule(m) /\ ~isMoleculeInterface(m)
               THEN [st |-> [st0 EXCEPT !.err = "InvalidMolecule"], cv |-> 0]
             ELSE IF bound = "unbound"
               THEN [st |-> [st0 EXCEPT !.err = "UnboundMolecule"], cv |-> 0]
             ELSE getInternal(scopeCache, st0, bound, expanded.tuples, 0)
    IN  [sub |-> [sub EXCEPT !.tmap = r.st.tmap], st |-> r.st,
         sc |-> scopeCache, ok |-> TRUE,
         msub |-> [state |-> "INITIAL", mol |-> bound, scopes |-> scopes,
                   cacheValue |-> r.cv, lazy |-> FALSE, pinned |-> FALSE]]

\* the start closure of lazyUse, applied to the state h = [sub, st, sc, msub]
\* the handle and the injector are in; ok is FALSE when runMount threw
start(slot, h) ==
    LET s == subStart(h.sub, slot, h.sc)
        r == getInternal(s.sc, [h.st EXCEPT !.tmap = s.sub.tmap],
                         h.msub.mol, s.tuples, h.msub.cacheValue)
        ms == runMount([entries |-> r.st.entries, sc |-> s.sc, ok |-> TRUE],
                       r.cv)
    IN  [sub |-> [s.sub EXCEPT !.tmap = r.st.tmap],
         st |-> [r.st EXCEPT !.entries = ms.entries],
         sc |-> ms.sc,
         msub |-> [h.msub EXCEPT !.cacheValue = r.cv,
                     !.state = IF ms.ok THEN "ACTIVE" ELSE @],
         ok |-> ms.ok]

\* the handle and injector state h written back to the variables
Commit(slot, h) ==
    /\ Len(h.st.entries) <= MaxInst
    /\ moleculeCache' = h.st.cache
    /\ entries' = h.st.entries
    /\ dependencyCache' = h.st.depCache
    /\ scopeCache' = h.sc
    /\ IF h.st.err = "none"
         THEN /\ subs' = [subs EXCEPT ![slot] = h.sub]
              /\ msubs' = [msubs EXCEPT ![slot] = h.msub]
         ELSE UNCHANGED <<subs, msubs>>
    /\ thrown' = IF h.st.err # "none" THEN h.st.err
                 ELSE IF ~h.ok THEN "UncachedValue"
                 ELSE "none"
    /\ UNCHANGED <<cleanupsRun, releasedSubscriptions, runCount,
                   callerBindings, otherInjector, memoize>>

\* injector.useLazily(m, ...scopes)
UseLazily(slot, m, scopes) ==
    /\ Free(slot)
    /\ Commit(slot, [lazyUse(slot, m, scopes) EXCEPT !.msub.lazy = TRUE])

\* injector.use(m, ...scopes): lazyUse, then start()
\* use: options.start() on the handle h that lazyUse returned, when lazyUse
\* did not throw
use(slot, h) == IF h.st.err = "none" THEN start(slot, h) ELSE h

Use(slot, m, scopes) ==
    /\ Free(slot)
    /\ Commit(slot, use(slot, lazyUse(slot, m, scopes)))

\* injector.get(m, ...scopes): use, the unsubscribe function is dropped
Get(slot, m, scopes) ==
    /\ Free(slot)
    /\ Commit(slot, [use(slot, lazyUse(slot, m, scopes))
                       EXCEPT !.msub.pinned = TRUE])

\* the throw of start() and stop(): nothing but the error leaves the call
Throw(err) ==
    /\ thrown' = err
    /\ UNCHANGED <<scopeCache, cleanupsRun, releasedSubscriptions, subs,
                   moleculeCache, dependencyCache, entries, msubs, runCount,
                   callerBindings, otherInjector, memoize>>

\* start() without the check of the state
Start_unchecked(slot) ==
    /\ subs[slot].kind = "mol"
    /\ msubs[slot].lazy
    /\ subs[slot].stopped => CanCreate
    /\ Commit(slot,
         start(slot,
           [sub |-> subs[slot],
            st |-> [cache |-> moleculeCache, entries |-> entries,
                    depCache |-> dependencyCache,
                    tmap |-> subs[slot].tmap, err |-> "none",
                    onMountImpl |-> <<>>, useImpl |-> <<>>],
            sc |-> scopeCache, ok |-> TRUE,
            msub |-> msubs[slot]]))

\* start() of a useLazily handle; it throws when the state is ACTIVE
Start(slot) ==
    /\ subs[slot].kind = "mol"
    /\ msubs[slot].lazy
    /\ IF msubs[slot].state = "ACTIVE" THEN Throw("AlreadyStarted")
       ELSE /\ subs[slot].stopped => CanCreate
            /\ Commit(slot,
                 start(slot,
                   [sub |-> subs[slot],
                    st |-> [cache |-> moleculeCache, entries |-> entries,
                            depCache |-> dependencyCache,
                            tmap |-> subs[slot].tmap, err |-> "none",
                            onMountImpl |-> <<>>, useImpl |-> <<>>],
                    sc |-> scopeCache, ok |-> TRUE,
                    msub |-> msubs[slot]]))

\* stop() of a useLazily handle, the unsubscribe function of use; it throws
\* when the state is STOPPED (with the message of start())
Stop(slot) ==
    /\ subs[slot].kind = "mol"
    /\ ~msubs[slot].pinned
    /\ IF msubs[slot].state = "STOPPED" THEN Throw("AlreadyStarted")
       ELSE /\ stopSubscription(slot)
            /\ subs' = [subs EXCEPT ![slot].stopped = TRUE]
            /\ msubs' = [msubs EXCEPT ![slot].state = "STOPPED"]
            /\ thrown' = "none"
            /\ UNCHANGED <<dependencyCache, callerBindings,
                           otherInjector, memoize>>

\* ----------------------------------------------- operations of the scoper
\* scoper.createSubscription()
CreateSubscription(slot) ==
    /\ Free(slot)
    /\ subs' = [subs EXCEPT ![slot] =
                  [kind |-> "scopes", gen |-> @.gen + 1, tmap |-> <<>>,
                   stopped |-> FALSE]]
    /\ msubs' = [msubs EXCEPT ![slot] = NoMsub]
    /\ thrown' = "none"
    /\ UNCHANGED <<scopeCache, cleanupsRun, releasedSubscriptions,
                   moleculeCache, dependencyCache, entries, runCount,
                   callerBindings, otherInjector, memoize>>

\* subscription.expand(next)
SubExpand(slot, next) ==
    /\ subs[slot].kind = "scopes"
    /\ subs' = [subs EXCEPT ![slot].tmap = expand(scopeCache, @, next).tmap]
    /\ thrown' = "none"
    /\ UNCHANGED <<scopeCache, cleanupsRun, releasedSubscriptions,
                   moleculeCache, dependencyCache, entries, msubs, runCount,
                   callerBindings, otherInjector, memoize>>

\* subscription.start()
SubStart(slot) ==
    /\ subs[slot].kind = "scopes"
    /\ subs[slot].stopped => CanCreate
    /\ LET s == subStart(subs[slot], slot, scopeCache)
       IN  /\ subs' = [subs EXCEPT ![slot] = s.sub]
           /\ scopeCache' = s.sc
    /\ thrown' = "none"
    /\ UNCHANGED <<cleanupsRun, releasedSubscriptions, moleculeCache,
                   dependencyCache, entries, msubs, runCount,
                   callerBindings, otherInjector, memoize>>

\* subscription.stop()
SubStop(slot) ==
    /\ subs[slot].kind = "scopes"
    /\ stopSubscription(slot)
    /\ subs' = [subs EXCEPT ![slot].stopped = TRUE]
    /\ thrown' = "none"
    /\ UNCHANGED <<dependencyCache, msubs, callerBindings,
                   otherInjector, memoize>>

\* scoper.useScopes(...scopes)
UseScopes(slot, scopes) ==
    /\ Free(slot)
    /\ LET sub == [kind |-> "scopes", gen |-> subs[slot].gen + 1,
                   tmap |-> expand(scopeCache, <<>>, scopes).tmap,
                   stopped |-> FALSE]
           s == subStart(sub, slot, scopeCache)
       IN  /\ subs' = [subs EXCEPT ![slot] = s.sub]
           /\ scopeCache' = s.sc
    /\ msubs' = [msubs EXCEPT ![slot] = NoMsub]
    /\ thrown' = "none"
    /\ UNCHANGED <<cleanupsRun, releasedSubscriptions, moleculeCache,
                   dependencyCache, entries, runCount, callerBindings,
                   otherInjector, memoize>>

\* the outcome r of registerCleanups leaving the call: the records with
\* the cleanups added, and the TypeError when it was thrown
Registered(r) ==
    /\ scopeCache' = r.sc
    /\ thrown' = IF r.ok THEN "none" ELSE "UncachedValue"
    /\ UNCHANGED <<cleanupsRun, releasedSubscriptions, subs, moleculeCache,
                   dependencyCache, entries, msubs, runCount,
                   callerBindings, otherInjector, memoize>>

\* scoper.registerCleanups(scopeKeys, cleanupSet)
RegisterCleanups(scopeKeys, cleanupSet) ==
    Registered(registerCleanups(scopeCache, scopeKeys, cleanupSet))

\* subscription.addCleanups(cleanups)
AddCleanups(slot, cleanupSet) ==
    /\ subs[slot].kind = "scopes"
    /\ RegisterCleanups(subs[slot].tmap, cleanupSet)

\* The capabilities of a finished constructor call, kept by the constructor
\* and called later (from a timer): inst is the entry the call produced, 0
\* for a call that threw or whose result was dropped for a cached entry.
running(inst) ==
    IF inst = 0 THEN runningAfterFinally ELSE entries[inst].running

\* the entry whose allScopes Set is the one dependencyCache holds: the one
\* of the molecule's first construction
FirstOf(inst) ==
    \A o \in 1..(inst - 1) : entries[o].mol # entries[inst].mol

\* trackingScopeGetter(s), called after the constructor call has ended
LateGetScope(inst, s) ==
    /\ inst \in 0..Len(entries)
    /\ IF ~running(inst) THEN Throw("AsyncGetScope")
       ELSE IF ~isMoleculeScope(s) THEN Throw("InvalidScope")
       ELSE /\ inst # 0
            /\ LET tuples == Tail(entries[inst].path)
               IN  entries' = [entries EXCEPT
                     ![inst].deps.allScopes = @ \cup {s},
                     ![inst].deps.defaultScopes =
                        IF usesDefault(tuples, s) THEN SetAdd(@, s) ELSE @]
            /\ dependencyCache' =
                 IF FirstOf(inst)
                   THEN [dependencyCache EXCEPT
                           ![entries[inst].mol].scopes = @ \cup {s}]
                   ELSE dependencyCache
            /\ thrown' = "none"
            /\ UNCHANGED <<scopeCache, cleanupsRun, releasedSubscriptions,
                           subs, moleculeCache, msubs, runCount,
                           callerBindings, otherInjector, memoize>>

\* trackingGetter(dep), called after the constructor call has ended; the
\* dependency is resolved with the tuples of the finished call the entry
\* kept in its path, and its lease goes to the subscription of that call
LateGetMolecule(inst, dep) ==
    /\ inst \in 0..Len(entries)
    /\ IF ~running(inst) THEN Throw("AsyncGetMolecule")
       ELSE IF ~isMolecule(dep) /\ ~isMoleculeInterface(dep)
         THEN Throw("InvalidMolecule")
       ELSE IF getTrueMolecule(dep) = "unbound"
         THEN Throw("UnboundMolecule")
       ELSE /\ inst # 0
            /\ LET r == getInternal(scopeCache,
                          [cache |-> moleculeCache, entries |-> entries,
                           depCache |-> dependencyCache, tmap |-> <<>>,
                           err |-> "none",
                           onMountImpl |-> <<>>, useImpl |-> <<>>],
                          getTrueMolecule(dep), Tail(entries[inst].path), 0)
                   mol == r.st.entries[r.cv]
               IN  /\ r.st.err = "none"
                   /\ Len(r.st.entries) <= MaxInst
                   /\ entries' = [r.st.entries EXCEPT
                         ![inst].deps.allScopes = @ \cup mol.deps.allScopes,
                         ![inst].deps.defaultScopes =
                            SetAddAll(@, mol.deps.defaultScopes)]
                   /\ moleculeCache' = r.st.cache
                   /\ dependencyCache' =
                        IF FirstOf(inst)
                          THEN [r.st.depCache EXCEPT
                                  ![entries[inst].mol].scopes =
                                     @ \cup mol.deps.allScopes]
                          ELSE r.st.depCache
            /\ thrown' = "none"
            /\ UNCHANGED <<scopeCache, cleanupsRun, releasedSubscriptions,
                           subs, msubs, runCount, callerBindings,
                           otherInjector, memoize>>

\* the caller changes the array it passed to createInjector: it pops the
\* pair, replaces the molecule or adds a pair
MutateBindings(arg) ==
    /\ arg # callerBindings
    /\ callerBindings' = arg
    /\ UNCHANGED <<scopeCache, cleanupsRun, releasedSubscriptions, subs,
                   moleculeCache, dependencyCache, entries, msubs, runCount,
                   thrown, otherInjector, memoize>>

\* the caller turns to the other injector: its next calls are calls on that
\* one, whose closure keeps every piece of state in a cache of all injectors
SwitchInjector_shared ==
    /\ otherInjector' =
         [otherInjector EXCEPT !.id = 3 - @, !.moleculeCache = moleculeCache,
                               !.dependencyCache = dependencyCache,
                               !.entries = entries]
    /\ UNCHANGED <<scopeCache, cleanupsRun, releasedSubscriptions, subs,
                   moleculeCache, dependencyCache, entries, msubs, runCount,
                   thrown, callerBindings, memoize>>

\* the caller turns to the other injector: its next calls are calls on that
\* one, whose closure holds its own moleculeCache, dependencyCache and scoper
SwitchInjector ==
    /\ otherInjector' =
         [id |-> 3 - otherInjector.id,
          scopeCache |-> scopeCache,
          cleanupsRun |-> cleanupsRun,
          releasedSubscriptions |-> releasedSubscriptions,
          subs |-> subs,
          moleculeCache |-> moleculeCache,
          dependencyCache |-> dependencyCache,
          entries |-> entries,
          msubs |-> msubs,
          runCount |-> runCount]
    /\ scopeCache' = otherInjector.scopeCache
    /\ cleanupsRun' = otherInjector.cleanupsRun
    /\ releasedSubscriptions' = otherInjector.releasedSubscriptions
    /\ subs' = otherInjector.subs
    /\ moleculeCache' = otherInjector.moleculeCache
    /\ dependencyCache' = otherInjector.dependencyCache
    /\ entries' = otherInjector.entries
    /\ msubs' = otherInjector.msubs
    /\ runCount' = otherInjector.runCount
    /\ UNCHANGED <<thrown, callerBindings, memoize>>

\* ------------------------------------------------------- specifications
\* Callers of one injector that resolve a molecule scoped by "T" and an
\* unscoped molecule, with overlapping, lazily started and restarted leases.
LeaseCalls ==
    {"Top", "Plain"} \X {<<>>, <<Tuple("T", 1, 1)>>, <<Tuple("T", 1, 2)>>}

Next ==
    \/ \E slot \in Slots, c \in LeaseCalls : UseLazily(slot, c[1], c[2])
    \/ \E slot \in Slots, c \in LeaseCalls : Use(slot, c[1], c[2])
    \/ \E slot \in Slots : msubs[slot].state # "ACTIVE" /\ Start(slot)
    \/ \E slot \in Slots : msubs[slot].state # "STOPPED" /\ Stop(slot)

Spec == Init /\ [][Next]_vars

\* Callers of the scoper alone: subscriptions over two (scope, value)
\* pairs and two cleanup callbacks registered for them.
ScoperContexts ==
    {<<Tuple("S", 1, 1)>>, <<Tuple("S", 1, 2)>>, <<Tuple("T", 1, 1)>>,
     <<Tuple("S", 1, 1), Tuple("T", 1, 1)>>}

ScoperCleanups == {<<>>, <<ExtCleanup(1)>>, <<ExtCleanup(1), ExtCleanup(2)>>}

NextScoper ==
    \/ \E slot \in Slots : CreateSubscription(slot)
    \/ \E slot \in Slots, next \in ScoperContexts : SubExpand(slot, next)
    \/ \E slot \in Slots : SubStart(slot)
    \/ \E slot \in Slots : SubStop(slot)
    \/ \E slot \in Slots, scopes \in ScoperContexts : UseScopes(slot, scopes)
    \/ \E scopeKeys \in ScoperContexts, cleanupSet \in ScoperCleanups :
         RegisterCleanups(scopeKeys, cleanupSet)
    \/ \E slot \in Slots, cleanupSet \in ScoperCleanups :
         AddCleanups(slot, cleanupSet)

SpecScoper == Init /\ [][NextScoper]_vars

\* Callers of the scoper that pass two tuple objects of one (scope, value)
\* pair and a tuple with another value of the same scope, expand their
\* subscriptions before and after start(), and restart them.
LeaseContexts ==
    {<<Tuple("S", 1, 1)>>, <<Tuple("S", 1, 2)>>, <<Tuple("S", 2, 1)>>}

LeaseCleanups == {<<>>, <<ExtCleanup(1)>>}

NextLease ==
    \/ \E slot \in Slots : CreateSubscription(slot)
    \/ \E slot \in Slots, next \in LeaseContexts : SubExpand(slot, next)
    \/ \E slot \in Slots : SubStart(slot)
    \/ \E slot \in Slots : SubStop(slot)
    \/ \E slot \in Slots, scopes \in LeaseContexts : UseScopes(slot, scopes)
    \/ \E scopeKeys \in LeaseContexts, cleanupSet \in LeaseCleanups :
         RegisterCleanups(scopeKeys, cleanupSet)
    \/ \E slot \in Slots, cleanupSet \in LeaseCleanups :
         AddCleanups(slot, cleanupSet)

SpecLease == Init /\ [][NextLease]_vars

\* Callers of get and use that pass tuples of the scopes "S" and
\* "T" in both orders, the default value of "T" explicitly, and tuples a
\* molecule does not depend on.
GetCalls ==
    LET S1 == Tuple("S", 1, 1)
        T0 == Tuple("T", 0, 1)
        T1 == Tuple("T", 1, 1)
        T2 == Tuple("T", 2, 1)
    IN  ({"Plain"} \X {<<>>, <<S1, T1>>})
          \cup ({"Top"} \X {<<>>, <<T0>>, <<S1, T1>>, <<T1, S1>>})
          \cup ({"User"} \X {<<>>, <<T1>>, <<T2>>, <<S1, T1>>, <<T1, S1>>})

NextGet ==
    \/ \E slot \in Slots, c \in GetCalls : Get(slot, c[1], c[2])
    \/ \E slot \in Slots, c \in GetCalls : Use(slot, c[1], c[2])
    \/ \E slot \in Slots : msubs[slot].state # "STOPPED" /\ Stop(slot)

SpecGet == Init /\ [][NextGet]_vars

\* Callers that resolve the molecules of a diamond (Bottom depends on Top,
\* Left and Right, which both depend on Top, which reads "T") and its top,
\* with leases that are started lazily and released.
DiamondCalls ==
    ({"Bottom", "Top"} \X {<<>>, <<Tuple("T", 1, 1)>>})
      \cup {<<"Left", <<>>>>}

NextDiamond ==
    \/ \E slot \in Slots, c \in DiamondCalls : Get(slot, c[1], c[2])
    \/ \E slot \in Slots, c \in DiamondCalls : Use(slot, c[1], c[2])
    \/ \E slot \in Slots, c \in DiamondCalls : UseLazily(slot, c[1], c[2])
    \/ \E slot \in Slots : msubs[slot].state # "ACTIVE" /\ Start(slot)
    \/ \E slot \in Slots : msubs[slot].state # "STOPPED" /\ Stop(slot)

SpecDiamond == Init /\ [][NextDiamond]_vars

\* Callers of an injector created with IBound bound to Top: they resolve
\* the interface, a molecule that depends on it, an interface without a
\* binding and a molecule that depends on that.
BindCalls ==
    ({"Client", "IBound"} \X {<<>>, <<Tuple("T", 1, 1)>>})
      \cup {<<"IUnbound", <<>>>>, <<"NeedsUnbound", <<>>>>}

NextBind ==
    \/ \E slot \in Slots, c \in BindCalls : Get(slot, c[1], c[2])
    \/ \E slot \in Slots, c \in BindCalls : Use(slot, c[1], c[2])
    \/ \E slot \in Slots, c \in BindCalls : UseLazily(slot, c[1], c[2])
    \/ \E slot \in Slots : msubs[slot].state # "ACTIVE" /\ Start(slot)
    \/ \E slot \in Slots : msubs[slot].state # "STOPPED" /\ Stop(slot)

SpecBind == Init /\ [][NextBind]_vars

\* Callers that call start() and stop() of their handles in any state of
\* the handle, also twice in a row.
MisuseCalls ==
    {<<"Top", <<>>>>, <<"Top", <<Tuple("T", 1, 1)>>>>, <<"Left", <<>>>>}

NextMisuse ==
    \/ \E slot \in Slots, c \in MisuseCalls : Use(slot, c[1], c[2])
    \/ \E slot \in Slots, c \in MisuseCalls : UseLazily(slot, c[1], c[2])
    \/ \E slot \in Slots : Start(slot)
    \/ \E slot \in Slots : Stop(slot)

SpecMisuse == Init /\ [][NextMisuse]_vars

\* Callers that pass a value that is no molecule to the injector and
\* resolve molecules whose constructors pass such a value to getMolecule
\* or getScope, next to a molecule that resolves.
InvalidCalls ==
    {<<"Junk", <<>>>>, <<"Junk", <<Tuple("T", 1, 1)>>>>, <<"BadMol", <<>>>>,
     <<"BadScope", <<>>>>, <<"Top", <<>>>>, <<"Top", <<Tuple("T", 1, 1)>>>>}

NextInvalid ==
    \/ \E slot \in Slots, c \in InvalidCalls : Get(slot, c[1], c[2])
    \/ \E slot \in Slots, c \in InvalidCalls : Use(slot, c[1], c[2])
    \/ \E slot \in Slots, c \in InvalidCalls : UseLazily(slot, c[1], c[2])
    \/ \E slot \in Slots : msubs[slot].state # "ACTIVE" /\ Start(slot)
    \/ \E slot \in Slots : msubs[slot].state # "STOPPED" /\ Stop(slot)

SpecInvalid == Init /\ [][NextInvalid]_vars

\* Callers that resolve molecules whose constructor throws: at once, or after
\* it has resolved a dependency.
ThrowCalls ==
    {<<"BadMol", <<>>>>, <<"BadScope", <<>>>>, <<"NeedsUnbound", <<>>>>,
     <<"NeedsUnbound", <<Tuple("T", 1, 1)>>>>, <<"Plain", <<>>>>}

NextThrow ==
    \/ \E slot \in Slots, c \in ThrowCalls : Get(slot, c[1], c[2])
    \/ \E slot \in Slots, c \in ThrowCalls : Use(slot, c[1], c[2])
    \/ \E slot \in Slots, c \in ThrowCalls : UseLazily(slot, c[1], c[2])
    \/ \E slot \in Slots : msubs[slot].state # "ACTIVE" /\ Start(slot)
    \/ \E slot \in Slots : msubs[slot].state # "STOPPED" /\ Stop(slot)

SpecThrow == Init /\ [][NextThrow]_vars

\* A caller of two injectors that resolves the same molecule, with the same
\* scope tuples, on both and releases its leases.
TwoCalls == {<<"Top", <<>>>>, <<"Top", <<Tuple("T", 1, 1)>>>>}

\* the subscriptions of both injectors together stay within MaxSubs
CanCreateTwo ==
    Sum([s \in Slots |-> subs[s].gen + otherInjector.subs[s].gen], Slots)
      < MaxSubs

NextTwo ==
    \/ \E slot \in Slots, c \in TwoCalls :
         CanCreateTwo /\ Get(slot, c[1], c[2])
    \/ \E slot \in Slots, c \in TwoCalls :
         CanCreateTwo /\ Use(slot, c[1], c[2])
    \/ \E slot \in Slots : msubs[slot].state # "STOPPED" /\ Stop(slot)
    \/ SwitchInjector

SpecTwo == Init /\ [][NextTwo]_vars

\* Callers that resolve two molecules that depend on each other, next to
\* callers of a molecule without a cycle.
CycleCalls ==
    {<<"CycleLeft", <<>>>>, <<"CycleLeft", <<Tuple("T", 1, 1)>>>>,
     <<"CycleRight", <<>>>>, <<"Top", <<>>>>, <<"Top", <<Tuple("T", 1, 1)>>>>}

NextCycle ==
    \/ \E slot \in Slots, c \in CycleCalls : Get(slot, c[1], c[2])
    \/ \E slot \in Slots, c \in CycleCalls : Use(slot, c[1], c[2])
    \/ \E slot \in Slots, c \in CycleCalls : UseLazily(slot, c[1], c[2])
    \/ \E slot \in Slots : msubs[slot].state # "ACTIVE" /\ Start(slot)
    \/ \E slot \in Slots : msubs[slot].state # "STOPPED" /\ Stop(slot)

SpecCycle == Init /\ [][NextCycle]_vars

\* Constructors that keep their capabilities and call them after they have
\* returned or thrown, while callers resolve and release the molecules.
LateCalls ==
    {<<"Left", <<>>>>, <<"Top", <<Tuple("T", 1, 1)>>>>, <<"BadMol", <<>>>>}

NextLate ==
    \/ \E slot \in Slots, c \in LateCalls : Get(slot, c[1], c[2])
    \/ \E slot \in Slots, c \in LateCalls : Use(slot, c[1], c[2])
    \/ \E slot \in Slots : msubs[slot].state # "STOPPED" /\ Stop(slot)
    \/ \E inst \in 0..MaxInst, s \in {"S", "T", "Junk"} :
         LateGetScope(inst, s)
    \/ \E inst \in 0..MaxInst, dep \in {"Plain", "Top", "Junk"} :
         LateGetMolecule(inst, dep)

SpecLate == Init /\ [][NextLate]_vars

\* Callers that resolve a molecule whose constructor reads "S" only when
\* the value it read from "T" is not the default, with and without values
\* for the two scopes.
CondCalls ==
    {"Cond"} \X {<<>>, <<Tuple("T", 1, 1)>>, <<Tuple("S", 1, 1)>>,
                 <<Tuple("S", 1, 1), Tuple("T", 1, 1)>>}

NextCond ==
    \/ \E slot \in Slots, c \in CondCalls : Get(slot, c[1], c[2])
    \/ \E slot \in Slots, c \in CondCalls : Use(slot, c[1], c[2])
    \/ \E slot \in Slots, c \in CondCalls : UseLazily(slot, c[1], c[2])
    \/ \E slot \in Slots : msubs[slot].state # "ACTIVE" /\ Start(slot)
    \/ \E slot \in Slots : msubs[slot].state # "STOPPED" /\ Stop(slot)

SpecCond == Init /\ [][NextCond]_vars

\* The caller of createInjector changes its bindings array between the
\* resolutions: it pops the pair, replaces the bound molecule, adds a pair
\* for the interface that had none.
BindingArrays ==
    {BindingsArg, <<>>, << <<"IBound", "Plain">> >>,
     << <<"IBound", "Plain">>, <<"IUnbound", "Plain">> >>}

MutateCalls == {"Client", "IBound", "IUnbound"} \X {<<>>}

NextMutate ==
    \/ \E slot \in Slots, c \in MutateCalls : Get(slot, c[1], c[2])
    \/ \E slot \in Slots, c \in MutateCalls : Use(slot, c[1], c[2])
    \/ \E slot \in Slots : msubs[slot].state # "STOPPED" /\ Stop(slot)
    \/ \E arg \in BindingArrays : MutateBindings(arg)

SpecMutate == Init /\ [][NextMutate]_vars

\* ------------------------------------------------------------- claims
\* a handle of lazyUse whose lease is outstanding
Active(slot) == subs[slot].kind = "mol" /\ msubs[slot].state = "ACTIVE"

\* the entry a new get/use of m with these scope tuples would return now; an
\* instance id above Len(entries) is an entry the call would construct
Resolved(m, scopes) ==
    getInternal(scopeCache,
                [cache |-> moleculeCache, entries |-> entries,
                 depCache |-> dependencyCache, tmap |-> <<>>, err |-> "none",
                 onMountImpl |-> <<>>, useImpl |-> <<>>],
                m, getScopes(scopeCache, scopes), 0).cv

\* two calls name the same scopes with the same values, in the same order
SameValues(a, b) ==
    Len(a) = Len(b) /\ \A i \in 1..Len(a) : Pair(a[i]) = Pair(b[i])

AllContexts ==
    {<<>>} \cup {<<t>> : t \in CallerTuples}
      \cup {<<t, u>> : t \in CallerTuples, u \in CallerTuples}

\* C1: while a lease on an entry's scope tuples is outstanding, a further
\* get/use of the same molecule with the same explicit scope values returns
\* the identical instance and constructs nothing.
C1_SameInstanceWhileLeased ==
    \A slot \in Slots :
      Active(slot) =>
        \A scopes \in AllContexts :
          SameValues(scopes, msubs[slot].scopes) =>
            Resolved(msubs[slot].mol, scopes) = msubs[slot].cacheValue

\* C2: a resolution made after an entry was purged and cleaned up never
\* returns that entry: no outstanding lease holds an entry whose purge
\* cleanup has run.
C2_NeverTheCleanedUpInstance ==
    \A slot \in Slots :
      Active(slot) =>
        \A n \in 1..entries[msubs[slot].cacheValue].mounts :
          PurgeCleanup(msubs[slot].cacheValue, n) \notin cleanupsRun

\* the (scope, value) pairs whose lease records carry an entry's cleanups
BackingPairs(e) ==
    {Pair(t) : t \in Range(Tail(entries[e].path))}
      \cup {Pair(DefaultTuple(s)) : s \in Range(entries[e].deps.defaultScopes)}

\* the handle's lease is outstanding and covers the pair
Holds(slot, p) ==
    /\ Active(slot)
    /\ \E t \in Range(subs[slot].tmap) : Pair(t) = p

\* some subscription leases every pair that backs the entry
Overlapping(e) == \E slot \in Slots : \A p \in BackingPairs(e) : Holds(slot, p)

Count(c) == IF c \in DOMAIN runCount THEN runCount[c] ELSE 0

\* the cleanups the mount callbacks of an entry returned at its n-th mount
MountCleanups(e, n) ==
    {UserCleanup(e, j, entries[e].deps.mountedCallbacks[j], n) :
       j \in {k \in 1..Len(entries[e].deps.mountedCallbacks) :
                entries[e].deps.mountedCallbacks[k] # "none"}}

\* what a step may do to the cleanup c of an entry e
CleanupStep(e, c) ==
    /\ Count(c)' <= 1
    /\ (Count(c) = 0 /\ Count(c)' = 1) => ~Overlapping(e)'
    /\ (Count(c) = 0 /\ ~Overlapping(e)') => Count(c)' = 1
    /\ Count(c) = 1 => Count(c)' = 1

C4_CleanupAtMostOnce == \A c \in DOMAIN runCount : runCount[c] <= 1

\* a callback that has run is still registered on a live record that a
\* later stop() will release
C4_Witness ==
    \E c \in cleanupsRun :
      \E p \in Pairs : scopeCache[p].present /\ c \in Range(scopeCache[p].cleanups)

\* a handle of get: the lease is never released
Pinned(slot) == Active(slot) /\ msubs[slot].pinned

\* C5: once get has returned an instance of the molecule that reads no
\* scope, every get of it returns that instance, whatever tuples accompany
\* the call.
C5_UnscopedOneInstance ==
    \A slot \in Slots :
      Pinned(slot) /\ msubs[slot].mol = "Plain" =>
        /\ \A c \in GetCalls :
             c[1] = "Plain" => Resolved("Plain", c[2]) = msubs[slot].cacheValue
        /\ \A o \in Slots :
             Pinned(o) /\ msubs[o].mol = "Plain" =>
               msubs[o].cacheValue = msubs[slot].cacheValue

\* two gets of the unscoped molecule with different tuples have returned
C5_Witness ==
    \E a, b \in Slots :
      /\ Pinned(a) /\ Pinned(b)
      /\ msubs[a].mol = "Plain" /\ msubs[b].mol = "Plain"
      /\ msubs[a].scopes = <<>> /\ Len(msubs[b].scopes) = 2

\* the value a call's tuples give a scope
ValueOf(scopes, scope) ==
    LET found == SelectSeq(scopes, LAMBDA t : t.scope = scope)
    IN  IF found = <<>> THEN DefaultValue(scope) ELSE Head(found).value

\* the scopes a molecule reads directly or through its dependencies
ReadScopes(m) == dependencyCache[m].scopes \ {"G"}

\* C6: two gets of a molecule that give different values to a scope the
\* molecule reads, directly or through a dependency, have returned different
\* instances; the default value counts as a value.
C6_InstancePerScopeValue ==
    \A a, b \in Slots :
      /\ Pinned(a) /\ Pinned(b)
      /\ msubs[a].mol = msubs[b].mol
      /\ \E s \in ReadScopes(msubs[a].mol) :
            ValueOf(msubs[a].scopes, s) # ValueOf(msubs[b].scopes, s)
      => msubs[a].cacheValue # msubs[b].cacheValue

\* three gets of the molecule that reads "T" through a dependency, at the
\* default value and at two other values
C6_Witness ==
    \E a, b, c \in Slots :
      /\ Pinned(a) /\ Pinned(b) /\ Pinned(c)
      /\ msubs[a].mol = "User" /\ msubs[b].mol = "User"
      /\ msubs[c].mol = "User"
      /\ ValueOf(msubs[a].scopes, "T") = 0
      /\ ValueOf(msubs[b].scopes, "T") = 1
      /\ ValueOf(msubs[c].scopes, "T") = 2

\* the calls that pass two tuples
PairCalls == {c \in GetCalls : Len(c[2]) = 2}

\* C7: a call returns the same instance for its tuples in either order,
\* also when one of them is of a scope the molecule does not depend on.
C7_OrderIndependent ==
    /\ \A c \in PairCalls : Resolved(c[1], c[2]) = Resolved(c[1], Reverse(c[2]))
    /\ \A a, b \in Slots :
         /\ Pinned(a) /\ Pinned(b)
         /\ msubs[a].mol = msubs[b].mol
         /\ Len(msubs[a].scopes) = 2
         /\ msubs[b].scopes = Reverse(msubs[a].scopes)
         => msubs[a].cacheValue = msubs[b].cacheValue

\* two gets of the molecule that depends on both scopes, with the tuples in
\* opposite orders
C7_Witness ==
    \E a, b \in Slots :
      /\ Pinned(a) /\ Pinned(b)
      /\ msubs[a].mol = "User" /\ msubs[b].mol = "User"
      /\ Len(msubs[a].scopes) = 2
      /\ msubs[b].scopes = Reverse(msubs[a].scopes)

\* C8: a tuple that carries its scope's default value is treated as absent:
\* the call returns what the call without the tuple returns, and no entry is
\* stored under a path that holds such a tuple.
C8_DefaultTupleIsAbsent ==
    /\ \A m \in {"Plain", "Top", "User"} :
         \A s \in UserScopes :
           \A k \in TupleIds :
             Resolved(m, <<Tuple(s, DefaultValue(s), k)>>) = Resolved(m, <<>>)
    /\ \A a, b \in Slots :
         /\ Pinned(a) /\ Pinned(b)
         /\ msubs[a].mol = msubs[b].mol
         /\ msubs[a].scopes = <<>>
         /\ Len(msubs[b].scopes) = 1
         /\ msubs[b].scopes[1].value = DefaultValue(msubs[b].scopes[1].scope)
         => msubs[a].cacheValue = msubs[b].cacheValue
    /\ \A e \in 1..Len(entries) :
         \A t \in Range(Tail(entries[e].path)) :
           t.value # DefaultValue(t.scope)

\* get(Top) and get(Top, [T, default]) have both returned
C8_Witness ==
    \E a, b \in Slots :
      /\ Pinned(a) /\ Pinned(b)
      /\ msubs[a].mol = "Top" /\ msubs[b].mol = "Top"
      /\ msubs[a].scopes = <<>>
      /\ msubs[b].scopes = <<Tuple("T", 0, 1)>>

\* the instances of a molecule among the dependencies an entry captured
Captured(e, m) == {d \in Range(entries[e].deps.buddies) : entries[d].mol = m}

\* the instances of Top an entry reaches, directly and through its
\* dependencies
TopsReached(e) ==
    Captured(e, "Top")
      \cup UNION {Captured(d, "Top") : d \in Range(entries[e].deps.buddies)}

\* C9: the instance of Bottom a caller holds reaches one instance of Top:
\* the one it depends on directly is the one Left and the one Right captured.
C9_DiamondSharesTop ==
    \A slot \in Slots :
      Active(slot) /\ msubs[slot].mol = "Bottom" =>
        Cardinality(TopsReached(msubs[slot].cacheValue)) = 1

\* C10: while a caller holds a lease on an instance, each dependency the
\* instance captured is the instance that resolving the dependency with the
\* caller's scope tuples returns.
C10_CapturedIsResolved ==
    \A slot \in Slots :
      Active(slot) =>
        \A d \in Range(entries[msubs[slot].cacheValue].deps.buddies) :
          Resolved(entries[d].mol, msubs[slot].scopes) = d

\* the entry a new get/use of a molecule or interface would return now
ResolvedVia(m, scopes) == Resolved(getTrueMolecule(m), scopes)

\* C11: the interface bound at creation resolves to the bound molecule: a
\* dependent that requested the interface holds an instance of the bound
\* molecule, and while a caller holds a lease on the dependent, resolving
\* the interface directly returns the instance the dependent received.
C11_BoundInterface ==
    /\ getTrueMolecule("IBound") = "Top"
    /\ \A e \in 1..Len(entries) :
         entries[e].mol = "Client" =>
           \A d \in Range(entries[e].deps.buddies) : entries[d].mol = "Top"
    /\ \A slot \in Slots :
         Active(slot) /\ msubs[slot].mol = "Client" =>
           \A d \in Range(entries[msubs[slot].cacheValue].deps.buddies) :
             ResolvedVia("IBound", msubs[slot].scopes) = d

\* the resolutions that reach an interface without a binding: directly, and
\* through a molecule that depends on it
UnboundCalls == {"IUnbound", "NeedsUnbound"}

\* a call threw ErrorUnboundMolecule and left the subscriptions, the lease
\* records and the entries of the interface and of the dependent as they were
UnboundStep ==
    thrown' = "UnboundMolecule" =>
      /\ subs' = subs
      /\ msubs' = msubs
      /\ scopeCache' = scopeCache
      /\ \A e \in (Len(entries) + 1)..Len(entries') :
           entries'[e].mol \notin UnboundCalls

\* C12: resolving an interface without a binding, directly or as the
\* dependency of a molecule, throws ErrorUnboundMolecule in every state of
\* the injector; the call starts no lease and neither the interface nor the
\* dependent ever has a cache entry.
C12_UnboundThrows ==
    /\ [](\A slot \in Slots, m \in UnboundCalls :
            lazyUse(slot, m, <<>>).st.err = "UnboundMolecule")
    /\ [](/\ \A p \in DOMAIN moleculeCache : p[1] \notin UnboundCalls
          /\ \A e \in 1..Len(entries) : entries[e].mol \notin UnboundCalls
          /\ ~dependencyCache["NeedsUnbound"].known)
    /\ [][UnboundStep]_vars

\* the dependent constructed its first dependency, then threw on the
\* interface: nothing but that dependency's entry exists
C12_Witness ==
    /\ thrown = "UnboundMolecule"
    /\ Len(entries) = 1
    /\ entries[1].mol = "Top"
    /\ \A slot \in Slots : subs[slot].kind = "none"

\* C13: the binding table is the copy made by createInjector: whatever the
\* caller does to the array afterwards, the bound interface resolves to the
\* molecule bound at creation, the interface without a binding stays
\* unbound, and a dependent holds an instance of the molecule bound at
\* creation.
C13_BindingsFixed ==
    /\ getTrueMolecule("IBound") = "Top"
    /\ getTrueMolecule("IUnbound") = "unbound"
    /\ \A slot \in Slots :
         lazyUse(slot, "IUnbound", <<>>).st.err = "UnboundMolecule"
    /\ \A slot \in Slots :
         Active(slot) /\ msubs[slot].scopes = <<>> =>
           /\ msubs[slot].mol \in {"Top", "Client"}
           /\ msubs[slot].mol = "Top" =>
                ResolvedVia("IBound", <<>>) = msubs[slot].cacheValue
           /\ msubs[slot].mol = "Client" =>
                \A d \in Range(entries[msubs[slot].cacheValue].deps.buddies) :
                  entries[d].mol = "Top"

\* the caller replaced the bound molecule and bound the other interface in
\* its array, then resolved the interface and the dependent
C13_Witness ==
    /\ callerBindings = << <<"IBound", "Plain">>, <<"IUnbound", "Plain">> >>
    /\ \E e \in 1..Len(entries) :
         /\ entries[e].mol = "Client"
         /\ entries[e].mounts > 0
    /\ thrown = "UnboundMolecule"

\* the entries an entry depends on, directly and through its dependencies
RECURSIVE TransitiveBuddies(_, _)
TransitiveBuddies(ents, e) ==
    LET b == Range(ents[e].deps.buddies)
    IN  b \cup UNION {TransitiveBuddies(ents, d) : d \in b}

\* how often the mount callbacks of an entry have run
MountsOf(ents, e) == IF e <= Len(ents) THEN ents[e].mounts ELSE 0

Pos(seq, x) == CHOOSE i \in 1..Len(seq) : seq[i] = x

\* The record of the global scope's default tuple is leased by every
\* subscription of a molecule, and runMount adds the purge cleanup of an
\* entry to it right after the entry's mount callbacks ran: its cleanups
\* list the mounts of a step in the order the callbacks ran.
MountStep ==
    LET newly == {e \in 1..Len(entries') :
                    MountsOf(entries', e) > MountsOf(entries, e)}
        log == scopeCache'[<<"G", 0>>].cleanups
        mark(e) == PurgeCleanup(e, entries'[e].mounts)
    IN  \A e \in newly :
          /\ MountsOf(entries', e) = MountsOf(entries, e) + 1
          /\ entries'[e].isMounted
          /\ mark(e) \in Range(log)
          /\ \A d \in TransitiveBuddies(entries', e) :
               /\ entries'[d].isMounted
               /\ IF d \in newly
                    THEN /\ mark(d) \in Range(log)
                         /\ Pos(log, mark(d)) < Pos(log, mark(e))
                    ELSE entries[d].isMounted

\* C14: in the step that mounts an entry, the mount callbacks of each entry
\* it depends on, directly or transitively, have run before its own (in
\* this step ahead of it, or at an earlier mount that still stands), and no
\* entry, the shared top of a diamond included, is mounted twice by the step.
C14_DependenciesMountFirst == [][MountStep]_vars

\* the diamond has been mounted from nothing in one step: Top, shared by
\* Left, Right and Bottom, was mounted once
C14_Witness ==
    \E b \in 1..Len(entries) :
      /\ entries[b].mol = "Bottom"
      /\ entries[b].isMounted
      /\ Cardinality(TransitiveBuddies(entries, b)) = 3
      /\ \A d \in TransitiveBuddies(entries, b) :
           entries[d].isMounted /\ entries[d].mounts = 1
      /\ Len(entries) = 4

\* the callbacks stop() of the handle would call now, in the order of the
\* calls: the cleanups of the records its release empties, reversed, without
\* those already run
DueCleanups(slot) ==
    SelectSeq(
      Reverse(releaseTuples(scopeCache, subs[slot].tmap,
                            SubId(slot, subs[slot].gen), <<>>).cleanupsToRun),
      LAMBDA cb : ~hasRun(cleanupsRun, cb))

\* every lease of a molecule includes the default tuple of the global
\* scope, and every mount registers its cleanups there first: that record
\* lists the registered cleanups in the order of their registration
RegistrationLog == scopeCache[<<"G", 0>>].cleanups

\* C15: the cleanups one stop() runs are called in the reverse of the order
\* in which they were registered, whatever the order of the subscription's
\* tuples and whichever records the call empties.
C15_ReverseRegistrationOrder ==
    \A slot \in Slots :
      Active(slot) /\ ~msubs[slot].pinned =>
        LET due == DueCleanups(slot)
        IN  /\ \A i \in 1..Len(due) : due[i] \in Range(RegistrationLog)
            /\ \A i, j \in 1..Len(due) :
                 i < j => Pos(RegistrationLog, due[i])
                            > Pos(RegistrationLog, due[j])

\* the scopes the constructor of Cond touches when it runs for a call
TouchedByCond(scopes) ==
    {"G", "T"} \cup (IF ValueOf(scopes, "T") # DefaultValue("T")
                       THEN {"S"} ELSE {})

\* a call threw the conditional-dependency error: it stored no entry and
\* left the leases and the recorded scopes as they were
ConditionalStep ==
    thrown' = "ConditionalDependency" =>
      /\ entries' = entries
      /\ moleculeCache' = moleculeCache
      /\ dependencyCache' = dependencyCache
      /\ scopeCache' = scopeCache
      /\ subs' = subs
      /\ msubs' = msubs

\* C16: once the scopes of the molecule's first construction are recorded,
\* a call whose construction touches a different set throws the
\* conditional-dependency error; the throwing call stores no entry, so the
\* scopes of every entry of the molecule are the recorded ones.
C16_ConditionalDependency ==
    /\ [](\A slot \in Slots, c \in CondCalls :
            (/\ dependencyCache["Cond"].known
             /\ TouchedByCond(c[2]) # dependencyCache["Cond"].scopes)
              => lazyUse(slot, "Cond", c[2]).st.err = "ConditionalDependency")
    /\ [](\A e \in 1..Len(entries) :
            /\ dependencyCache[entries[e].mol].known
            /\ entries[e].deps.allScopes
                 = dependencyCache[entries[e].mol].scopes)
    /\ [][ConditionalStep]_vars

\* the first construction read "T" alone; a later call with a value for "T"
\* threw, and the molecule has the first entry only
C16_Witness ==
    /\ thrown = "ConditionalDependency"
    /\ dependencyCache["Cond"].scopes = {"G", "T"}
    /\ Len(entries) = 1
    /\ \E slot \in Slots : Active(slot)

\* a capability of a finished constructor call threw its error: nothing is
\* returned, and what the entries and the injector recorded is as it was
LateStep ==
    thrown' \in {"AsyncGetMolecule", "AsyncGetScope"} =>
      /\ entries' = entries
      /\ dependencyCache' = dependencyCache
      /\ moleculeCache' = moleculeCache
      /\ scopeCache' = scopeCache
      /\ subs' = subs
      /\ msubs' = msubs

\* C17: between the calls on the injector no constructor call is running:
\* the capabilities of every constructor call that returned (an entry) or
\* threw are dead, their invocation throws ErrorAsyncGetMol or
\* ErrorAsyncGetScope, and the throwing step adds nothing to the scopes,
\* dependencies or buddies of any entry.
C17_LateCapabilityThrows ==
    /\ [](\A inst \in 0..Len(entries) : ~running(inst))
    /\ [][LateStep]_vars

\* the capability of a mounted entry's constructor was called late
C17_Witness ==
    /\ thrown = "AsyncGetScope"
    /\ \E e \in 1..Len(entries) :
         entries[e].mol = "Left" /\ entries[e].isMounted

\* a call threw ErrorInvalidMolecule or ErrorInvalidScope: no subscription,
\* lease or entry came of it
InvalidStep ==
    thrown' \in {"InvalidMolecule", "InvalidScope"} =>
      /\ subs' = subs
      /\ msubs' = msubs
      /\ scopeCache' = scopeCache
      /\ entries' = entries
      /\ moleculeCache' = moleculeCache

\* C18: get, use and useLazily of a value that is neither a molecule nor an
\* interface throw ErrorInvalidMolecule and create no subscription or
\* lease; a constructor that passes such a value to getMolecule throws
\* ErrorInvalidMolecule, one that passes a value that is no scope to
\* getScope throws ErrorInvalidScope.
C18_InvalidArguments ==
    /\ [](\A slot \in Slots, c \in InvalidCalls :
            LET err == lazyUse(slot, c[1], c[2]).st.err
            IN  /\ c[1] = "Junk" => err = "InvalidMolecule"
                /\ c[1] = "BadMol" => err = "InvalidMolecule"
                /\ c[1] = "BadScope" => err = "InvalidScope"
                /\ c[1] = "Top" => err = "none")
    /\ [](\A e \in 1..Len(entries) : entries[e].mol = "Top")
    /\ [][InvalidStep]_vars

\* the invalid value was passed while a lease on a molecule was active
C18_Witness ==
    /\ thrown = "InvalidMolecule"
    /\ \E slot \in Slots : Active(slot)
    /\ \E slot \in Slots : subs[slot].kind = "none"

\* start() or stop() threw: the leases, the cache, the entries with their
\* mount state and the cleanups that have run are as they were
MisuseStep ==
    thrown' = "AlreadyStarted" =>
      UNCHANGED <<scopeCache, cleanupsRun, releasedSubscriptions, subs,
                  moleculeCache, dependencyCache, entries, msubs, runCount>>

\* C19: start() of a useLazily handle that is ACTIVE can only throw, stop()
\* of a handle that is STOPPED can only throw, and the throwing call
\* changes no lease, cache entry or mount state and runs no cleanup.
C19_MisuseThrows ==
    /\ [](\A slot \in Slots :
            subs[slot].kind = "mol" /\ msubs[slot].lazy =>
              /\ msubs[slot].state = "ACTIVE" =>
                   /\ ENABLED Start(slot)
                   /\ ~ENABLED (Start(slot) /\ thrown' # "AlreadyStarted")
              /\ msubs[slot].state = "STOPPED" =>
                   /\ ENABLED Stop(slot)
                   /\ ~ENABLED (Stop(slot) /\ thrown' # "AlreadyStarted"))
    /\ [][MisuseStep]_vars

\* a handle was started twice while another lease holds the same entry
C19_Witness ==
    /\ thrown = "AlreadyStarted"
    /\ \E a, b \in Slots :
         /\ a # b
         /\ Active(a) /\ msubs[a].lazy
         /\ Active(b)
         /\ msubs[a].cacheValue = msubs[b].cacheValue

\* the cleanups registered for an entry at any of its mounts
CleanupsOf(run, e) ==
    {c \in DOMAIN run : c[1] \in {"purge", "user"} /\ c[2] = e}

\* what a step may do to the entry a get returned: the lease stays, the
\* entry stays in its slot of the cache and mounted, and none of its
\* cleanups is called
PinnedStep ==
    \A slot \in Slots :
      Pinned(slot) =>
        LET e == msubs[slot].cacheValue
        IN  /\ Pinned(slot)'
            /\ msubs'[slot].cacheValue = e
            /\ subs'[slot] = subs[slot]
            /\ CacheGet(moleculeCache', entries'[e].path) = e
            /\ entries'[e].isMounted
            /\ entries'[e].mounts = entries[e].mounts
            /\ \A c \in CleanupsOf(runCount', e) : Count(c)' = Count(c)
            /\ \A t \in Range(subs[slot].tmap) :
                 /\ scopeCache'[Pair(t)].present
                 /\ SubId(slot, subs[slot].gen)
                      \in scopeCache'[Pair(t)].references

LiveIds ==
    {SubId(slot, subs[slot].gen) :
       slot \in {o \in Slots : subs[o].kind # "none" /\ ~subs[o].stopped}}

\* a subscription that was started and is not stopped holds the pair
Held(p) == scopeCache[p].references \cap LiveIds # {}

\* what a step may do to the tuple of a pair that is held before and after
CanonicalStep ==
    \A p \in Pairs :
      Held(p) /\ Held(p)' => scopeCache'[p].tuple = scopeCache[p].tuple

\* C21: while a started and not yet stopped subscription holds a pair,
\* expand and useScopes return one tuple object for it, the same over a
\* chain of overlapping subscriptions; when no such subscription holds the
\* pair, the caller's own tuple object is returned.
C21_CanonicalWhileHeld ==
    /\ [](\A t \in CallerTuples :
            getScope(scopeCache, t)
              = IF Held(Pair(t)) THEN scopeCache[Pair(t)].tuple ELSE t)
    /\ [][CanonicalStep]_vars

\* a scoper subscription that is stopped and was not started again
StoppedScopes(slot) == subs[slot].kind = "scopes" /\ subs[slot].stopped

\* stop() of a stopped subscription: no lease record changes, no cleanup
\* runs, nothing is thrown
SecondStopStep ==
    \A slot \in Slots :
      StoppedScopes(slot) /\ SubStop(slot) =>
        /\ UNCHANGED <<scopeCache, cleanupsRun, runCount, moleculeCache,
                       entries, releasedSubscriptions>>
        /\ thrown' = "none"

\* C22: stop() on a scoper subscription that is already stopped, with no
\* start() in between, is a no-op: it changes no lease record, runs no
\* cleanup and does not throw.
C22_SecondStopIsNoOp == [][SecondStopStep]_vars

\* a stopped subscription lists a pair whose record is alive and carries
\* the subscription and a cleanup: a second release would drop the record
\* and run the cleanup
C22_Witness ==
    \E slot \in Slots :
      /\ StoppedScopes(slot)
      /\ SubId(slot, subs[slot].gen) \in releasedSubscriptions
      /\ \E i \in 1..Len(subs[slot].tmap) :
            LET cached == scopeCache[Pair(subs[slot].tmap[i])]
            IN  /\ cached.present
                /\ cached.cleanups # <<>>
                /\ SubId(slot, subs[slot].gen) \in cached.references

\* the pairs a subscription lists
PairsOf(slot) == {Pair(subs[slot].tmap[i]) : i \in 1..Len(subs[slot].tmap)}

\* start() of a stopped subscription: a new subscription object holds a
\* lease on every pair of the snapshot, and cleanups can be registered for
\* the snapshot
RestartStep ==
    \A slot \in Slots :
      StoppedScopes(slot) /\ SubStart(slot) =>
        /\ ~subs'[slot].stopped
        /\ SubId(slot, subs'[slot].gen) \notin releasedSubscriptions'
        /\ PairsOf(slot)' = PairsOf(slot)
        /\ \A p \in PairsOf(slot) :
              /\ scopeCache'[p].present
              /\ SubId(slot, subs'[slot].gen) \in scopeCache'[p].references
        /\ \A i \in 1..Len(subs'[slot].tmap) :
              subs'[slot].tmap[i] = scopeCache'[Pair(subs'[slot].tmap[i])].tuple
        /\ \A cleanupSet \in LeaseCleanups :
              registerCleanups(scopeCache', subs'[slot].tmap, cleanupSet).ok

\* stop() of a subscription that is not stopped: the cleanups of every
\* pair it is the last holder of have run when stop() returns, and the
\* record is gone
LastStopStep ==
    \A slot \in Slots :
      subs[slot].kind = "scopes" /\ ~subs[slot].stopped /\ SubStop(slot) =>
        \A p \in PairsOf(slot) :
          scopeCache[p].present
            /\ scopeCache[p].references = {SubId(slot, subs[slot].gen)} =>
              /\ ~scopeCache'[p].present
              /\ \A i \in 1..Len(scopeCache[p].cleanups) :
                    scopeCache[p].cleanups[i] \in cleanupsRun'

\* C23: start() after stop() on the same scoper subscription leases every
\* tuple of the preserved snapshot again, any number of times in a row;
\* after each restart cleanups can be registered for those pairs and they
\* run at the next stop().
C23_RestartLeasesAgain == [][RestartStep /\ LastStopStep]_vars

\* a subscription restarted twice in a row is the only holder of a pair
\* for which a cleanup that has not run yet is registered
C23_Witness ==
    \E slot \in Slots :
      /\ subs[slot].kind = "scopes"
      /\ ~subs[slot].stopped
      /\ subs[slot].gen = MaxSubs
      /\ \E p \in PairsOf(slot) :
            /\ scopeCache[p].present
            /\ scopeCache[p].references = {SubId(slot, subs[slot].gen)}
            /\ scopeCache[p].cleanups # <<>>
            /\ \A i \in 1..Len(scopeCache[p].cleanups) :
                  scopeCache[p].cleanups[i] \notin cleanupsRun

\* the tuple arrays registerCleanups is called with: a caller's own array,
\* or the current tuples of a subscription (addCleanups)
CleanupKeys == LeaseContexts \cup {subs[slot].tmap : slot \in Slots}

\* a given pair has no live lease record
Uncached(scopeKeys) ==
    \E i \in 1..Len(scopeKeys) : ~scopeCache[Pair(scopeKeys[i])].present

\* C24: registerCleanups and addCleanups throw when one of the given
\* pairs has no live lease record, be it a pair that was only expanded and
\* never started or a pair whose last lease has been stopped.
C24_UncachedThrows ==
    \A scopeKeys \in CleanupKeys, cleanupSet \in LeaseCleanups :
      Uncached(scopeKeys) =>
        ~registerCleanups(scopeCache, scopeKeys, cleanupSet).ok

\* the state a resolution with these scope tuples starts from
ResolutionOf(scopes) ==
    [cache |-> moleculeCache, entries |-> entries,
     depCache |-> dependencyCache,
     tmap |-> expand(scopeCache, <<>>, scopes).tmap, err |-> "none",
     onMountImpl |-> <<>>, useImpl |-> <<>>]

\* st0 is the state before runAndCache(m), mounted what the constructor call
\* left and r what runAndCache left: when the constructor threw, the error
\* leaves runAndCache, the stacks are as before, no entry and no path of m
\* were added, the fingerprint of m is as before, and the next getInternal
\* of m is a runAndCache
AllOrNothing(m, tuples, st0, mounted, r) ==
    mounted.st.err # "none" =>
      /\ r.st.err = mounted.st.err
      /\ r.cv = 0
      /\ r.st.onMountImpl = st0.onMountImpl
      /\ r.st.useImpl = st0.useImpl
      /\ r.st.depCache[m] = st0.depCache[m]
      /\ \A inst \in (Len(st0.entries) + 1)..Len(r.st.entries) :
            r.st.entries[inst].mol # m
      /\ \A path \in DOMAIN r.st.cache :
            path[1] = m => CacheGet(st0.cache, path) = r.st.cache[path]
      /\ getInternal(scopeCache, [r.st EXCEPT !.err = "none"], m, tuples, 0)
           = runAndCache(scopeCache, [r.st EXCEPT !.err = "none"], m, tuples)

\* C25: when the constructor of a molecule throws, no cache entry and no
\* dependency fingerprint is stored for the molecule, the onMount and use
\* stacks are back at the depth they had before the call, and the next
\* resolution of the molecule runs the constructor again.
C25_ThrownConstructorLeavesNothing ==
    \A c \in ThrowCalls :
      AllOrNothing(c[1], getScopes(scopeCache, c[2]), ResolutionOf(c[2]),
                   construct(scopeCache, ResolutionOf(c[2]), c[1],
                             getScopes(scopeCache, c[2])),
                   runAndCache(scopeCache, ResolutionOf(c[2]), c[1],
                               getScopes(scopeCache, c[2])))

\* a constructor has thrown after it had resolved a dependency: the entry
\* of the dependency is cached, and the molecule has no entry and no
\* fingerprint
C25_Witness ==
    /\ thrown = "UnboundMolecule"
    /\ \E inst \in 1..Len(entries) : entries[inst].mol = "Top"
    /\ \A inst \in 1..Len(entries) : entries[inst].mol # "NeedsUnbound"
    /\ ~dependencyCache["NeedsUnbound"].known
    /\ construct(scopeCache, ResolutionOf(<<>>), "NeedsUnbound", <<>>).st.err
         = "UnboundMolecule"

\* the number of the injector the caller is calling
ThisInjector == 3 - otherInjector.id

\* the state of the injector with this number
InjectorState(id) ==
    IF otherInjector.id = id THEN otherInjector
    ELSE [id |-> id,
          scopeCache |-> scopeCache,
          cleanupsRun |-> cleanupsRun,
          releasedSubscriptions |-> releasedSubscriptions,
          subs |-> subs,
          moleculeCache |-> moleculeCache,
          dependencyCache |-> dependencyCache,
          entries |-> entries,
          msubs |-> msubs,
          runCount |-> runCount]

\* the instances an injector holds or has held
InstancesOf(ents) == {ents[inst].instanceId : inst \in 1..Len(ents)}

\* r is what getInternal returns for a call on this injector: the instance
\* is none of the other injector
NotOfOther(r) ==
    r.st.err = "none" =>
      r.st.entries[r.cv].instanceId \notin InstancesOf(otherInjector.entries)

\* the two injectors hold no instance in common, and no resolution on one
\* returns an instance of the other
DifferentInstances ==
    /\ InstancesOf(entries) \cap InstancesOf(otherInjector.entries) = {}
    /\ \A c \in TwoCalls :
          NotOfOther(getInternal(scopeCache, ResolutionOf(c[2]), c[1],
                                 getScopes(scopeCache, c[2]), 0))

\* a call on one injector leaves the cache, the leases and the mount state
\* of the other as they are; turning to the other injector changes neither
IsolatedStep ==
    \A id \in {1, 2} :
      id # ThisInjector \/ ThisInjector' # ThisInjector =>
        InjectorState(id)' = InjectorState(id)

\* C26: two injectors share no instances: a molecule resolved on one is an
\* instance different from the one the other returns for the same molecule
\* and scopes, and no operation on one injector changes the cache, the
\* leases or the mount state of the other.
C26_InjectorsShareNothing == []DifferentInstances /\ [][IsolatedStep]_vars

\* both injectors hold a mounted entry of the same molecule at the same path
C26_Witness ==
    \E inst \in 1..Len(entries), o \in 1..Len(otherInjector.entries) :
      /\ entries[inst].path = otherInjector.entries[o].path
      /\ entries[inst].isMounted
      /\ otherInjector.entries[o].isMounted
      /\ CacheGet(moleculeCache, entries[inst].path) = inst
      /\ CacheGet(otherInjector.moleculeCache, entries[inst].path) = o

\* the value the context holds for scope s: the value of its tuple for s,
\* the default value of s when it has none
ContextValue(scopes, s) ==
    IF \E i \in 1..Len(scopes) : scopes[i].scope = s
      THEN scopes[CHOOSE i \in 1..Len(scopes) : scopes[i].scope = s].value
      ELSE DefaultValue(s)

\* the entry and its transitive dependencies that a resolution constructed:
\* the ones that were not among the entries before it
ConstructedBy(r) ==
    {e \in {r.cv} \cup TransitiveBuddies(r.st.entries, r.cv) :
       e > Len(entries)}

\* r is what getInternal returned for a call with these scope tuples: every
\* constructor it ran was handed the values of the context
SeesContext(scopes, r) ==
    r.st.err = "none" =>
      \A e \in ConstructedBy(r) :
        \A i \in 1..Len(r.st.entries[e].value) :
          r.st.entries[e].value[i][2]
            = ContextValue(scopes, r.st.entries[e].value[i][1])

\* C27: getScope(s) inside a constructor returns the value of the context
\* tuple for s when the caller supplied one and the default value of s
\* otherwise, and every transitive dependency constructed during the same
\* resolution sees the same context value for s.
C27_GetScopeReadsContext ==
    /\ \A c \in GetCalls, s \in UserScopes :
          getScopeValue(c[2], s) = ContextValue(c[2], s)
    /\ \A c \in GetCalls :
          SeesContext(c[2], getInternal(scopeCache, ResolutionOf(c[2]), c[1],
                                        getScopes(scopeCache, c[2]), 0))

\* an entry of User constructed with S = 1 and T = 1 in the context has
\* read S = 1, and its dependency Top has read T = 1
C27_Witness ==
    \E e \in 1..Len(entries) :
      /\ entries[e].mol = "User"
      /\ entries[e].value = << <<"S", 1>> >>
      /\ \E b \in Range(entries[e].deps.buddies) :
            /\ entries[b].mol = "Top"
            /\ entries[b].value = << <<"T", 1>> >>

\* the molecules that transitively depend on themselves
OnCycle == {"CycleLeft", "CycleRight"}

\* r is what getInternal left: the call threw, and r holds no entry, no
\* cache path and no fingerprint of a molecule on the cycle
NothingOfCycle(r) ==
    /\ r.st.err # "none"
    /\ \A inst \in 1..Len(r.st.entries) : r.st.entries[inst].mol \notin OnCycle
    /\ \A path \in DOMAIN r.st.cache : path[1] \notin OnCycle
    /\ \A m \in OnCycle : ~r.st.depCache[m].known

\* C28: resolving a molecule that transitively depends on itself never
\* returns a value: the call throws, and no cache entry is stored for any
\* molecule on the cycle.
C28_CycleThrows ==
    /\ \A c \in {d \in CycleCalls : d[1] \in OnCycle} :
          NothingOfCycle(getInternal(scopeCache, ResolutionOf(c[2]), c[1],
                                     getScopes(scopeCache, c[2]), 0))
    /\ \A inst \in 1..Len(entries) : entries[inst].mol \notin OnCycle
    /\ \A slot \in Slots : msubs[slot].mol \notin OnCycle

\* a call of a molecule on the cycle has thrown, next to a live entry of a
\* molecule without a cycle
C28_Witness ==
    /\ thrown = "RangeError"
    /\ \E inst \in 1..Len(entries) : entries[inst].isMounted

\* the scopes recorded for a molecule stay the recorded ones
FootprintStep ==
    \A m \in Molecules :
      dependencyCache[m].known => dependencyCache'[m] = dependencyCache[m]

\* r is what a call left: the scopes recorded before it are as they were
FootprintKept(r) ==
    \A m \in Molecules :
      dependencyCache[m].known => r.st.depCache[m] = dependencyCache[m]

\* C29: the scope footprint recorded for a molecule at its first successful
\* construction never changes afterwards: no later construction, be it
\* successful or failing with the conditional-dependency error, adds to,
\* removes from or replaces the recorded set.
C29_FootprintNeverChanges ==
    /\ [](\A slot \in Slots, c \in CondCalls :
            FootprintKept(lazyUse(slot, c[1], c[2])))
    /\ [][FootprintStep]_vars

\* after the first construction another construction has succeeded and one
\* has failed with the conditional-dependency error
C29_Witness ==
    /\ thrown = "ConditionalDependency"
    /\ dependencyCache["Cond"].scopes = {"G", "T", "S"}
    /\ Cardinality({e \in 1..Len(entries) : entries[e].mol = "Cond"}) >= 2

\* the purges of an entry that have run: one purge cleanup is created at each
\* mount
PurgesOf(e) ==
    Cardinality({k \in 1..entries[e].mounts :
                   PurgeCleanup(e, k) \in cleanupsRun})

\* a step runs the mount callbacks of an entry at most once, and not at all
\* when the entry is mounted already
MountOnceStep ==
    \A e \in 1..Len(entries') :
      /\ MountsOf(entries', e) \in {MountsOf(entries, e),
                                    MountsOf(entries, e) + 1}
      /\ e <= Len(entries) /\ entries[e].isMounted =>
            entries'[e].mounts = entries[e].mounts

\* the mount callbacks of an entry have run once for every purge of the
\* entry, and once more when it is mounted; the entry a live handle holds is
\* mounted
MountedOnce ==
    /\ \A e \in 1..Len(entries) :
          entries[e].mounts = PurgesOf(e) + (IF entries[e].isMounted THEN 1 ELSE 0)
    /\ \A slot \in Slots :
          Active(slot) => entries[msubs[slot].cacheValue].isMounted

\* C30: mounting an entry that is already mounted does nothing: however
\* many overlapping get/use calls resolve the same entry, each of its mount
\* callbacks runs exactly once between the entry's creation and its next
\* purge.
C30_MountedExactlyOnce == []MountedOnce /\ [][MountOnceStep]_vars

\* three live handles hold one entry, which was mounted once
C30_Witness ==
    \E e \in 1..Len(entries) :
      /\ \A slot \in Slots : Active(slot) /\ msubs[slot].cacheValue = e
      /\ entries[e].isMounted
      /\ entries[e].mounts = 1
      /\ entries[e].deps.mountedCallbacks # <<>>

\* the live handles other than slot that hold the entry slot holds
Sharing(slot) ==
    {o \in Slots \ {slot} :
       Active(o) /\ msubs[o].cacheValue = msubs[slot].cacheValue}

\* the subscription of a live handle holds a lease on the default tuple of
\* every scope its entry depends on by default
DefaultsLeased ==
    \A slot \in Slots :
      Active(slot) =>
        \A s \in Range(entries[msubs[slot].cacheValue].deps.defaultScopes) :
          /\ scopeCache[Pair(DefaultTuple(s))].present
          /\ SubId(slot, subs[slot].gen)
               \in scopeCache[Pair(DefaultTuple(s))].references

\* stop() of a handle whose entry another live handle holds: the entry
\* stays cached and mounted, and none of its cleanups runs
SharedStopStep ==
    \A slot \in Slots :
      Active(slot) /\ Stop(slot) /\ Sharing(slot) # {} =>
        LET e == msubs[slot].cacheValue
        IN  /\ entries'[e].isMounted
            /\ CacheGet(moleculeCache', entries[e].path) = e
            /\ \A cb \in cleanupsRun' \ cleanupsRun : cb[2] # e

\* C31: a subscription that resolves, by a cache hit, an entry another
\* subscription created and that depends on a scope only through the
\* scope's default value also leases the default tuple of that scope: the
\* entry is not purged and its cleanup does not run when the creator stops
\* while the other subscription is active.
C31_DefaultLeaseKeepsEntry == []DefaultsLeased /\ [][SharedStopStep]_vars

\* the handle that created an entry depending on "T" by default has
\* stopped; a handle that found the entry in the cache is live and the
\* entry is mounted
C31_Witness ==
    \E a, b \in Slots :
      /\ a < b
      /\ subs[a].kind = "mol" /\ msubs[a].state = "STOPPED"
      /\ Active(b)
      /\ msubs[a].cacheValue = msubs[b].cacheValue
      /\ "T" \in Range(entries[msubs[b].cacheValue].deps.defaultScopes)
      /\ entries[msubs[b].cacheValue].isMounted
      /\ entries[msubs[b].cacheValue].mounts = 1

\* ---------------------------------------------------------------- C32
PathTuples(e) == Tail(entries[e].path)

PathShape(e) ==
    /\ Len(entries[e].path) >= 1
    /\ Head(entries[e].path) = entries[e].mol
    /\ \A i \in 1..Len(PathTuples(e)) :
         /\ PathTuples(e)[i].scope \in entries[e].deps.allScopes
         /\ PathTuples(e)[i].value # DefaultValue(PathTuples(e)[i].scope)
    /\ \A i, j \in 1..Len(PathTuples(e)) :
         i < j => SortId(PathTuples(e)[i].scope)
                    < SortId(PathTuples(e)[j].scope)

\* C32: every cache entry's stored path starts with the entry's molecule and
\* continues only with tuples of scopes of the entry's footprint whose value
\* differs from the scope's default, at most one per scope, in strictly
\* ascending order of the scopes' creation ids; distinct scopes have distinct
\* creation ids.
C32_PathShape ==
    /\ \A e \in 1..Len(entries) : PathShape(e)
    /\ \A s, t \in Range(Scopes) : s # t => SortId(s) # SortId(t)

\* Callers that pass two tuples of one scope in one call.
RepeatCalls ==
    LET T1 == Tuple("T", 1, 1)
        T1b == Tuple("T", 1, 2)
        T2 == Tuple("T", 2, 1)
    IN  {"Top", "Plain"} \X {<<>>, <<T1>>, <<T2>>, <<T1, T2>>, <<T1, T1b>>}

NextRepeat ==
    \/ \E slot \in Slots, c \in RepeatCalls : Get(slot, c[1], c[2])
    \/ \E slot \in Slots, c \in RepeatCalls : Use(slot, c[1], c[2])
    \/ \E slot \in Slots : msubs[slot].state # "STOPPED" /\ Stop(slot)

SpecRepeat == Init /\ [][NextRepeat]_vars

\* ---------------------------------------------------------------- C33
\* Callers of the scoper that expand subscriptions with tuples of two scopes,
\* with another value of one of them, and with two tuples of one scope in one
\* call.
ExpandContexts ==
    {<<Tuple("S", 2, 1)>>, <<Tuple("S", 1, 1), Tuple("T", 1, 1)>>,
     <<Tuple("S", 2, 1), Tuple("S", 1, 2)>>}

\* two subscription objects are in the callers' hands at a time
ExpandSlots == 1..2

NextExpand ==
    \/ \E slot \in ExpandSlots : CreateSubscription(slot)
    \/ \E slot \in ExpandSlots, next \in ExpandContexts :
         SubExpand(slot, next)
    \/ \E slot \in ExpandSlots : SubStart(slot)
    \/ \E slot \in ExpandSlots : SubStop(slot)

SpecExpand == Init /\ [][NextExpand]_vars

OnePerScope(tm) ==
    \A i, j \in 1..Len(tm) : i # j => tm[i].scope # tm[j].scope

HasScope(tm, s) == \E i \in 1..Len(tm) : tm[i].scope = s

TuplesOf(tm, s) == {tm[i] : i \in {k \in 1..Len(tm) : tm[k].scope = s}}

LastOf(ts, s) ==
    ts[CHOOSE i \in 1..Len(ts) :
         /\ ts[i].scope = s
         /\ \A j \in 1..Len(ts) : ts[j].scope = s => j <= i]

ExpandStep ==
    \A slot \in Slots, next \in ExpandContexts :
      SubExpand(slot, next) =>
        LET returned == expand(scopeCache, subs[slot].tmap, next).tuples
        IN  /\ Len(returned) = Len(next)
            /\ \A i \in 1..Len(next) :
                 returned[i] = IF scopeCache[Pair(next[i])].present
                                 THEN scopeCache[Pair(next[i])].tuple
                                 ELSE next[i]
            /\ \A s \in Range(Scopes) :
                 IF HasScope(next, s)
                   THEN TuplesOf(subs'[slot].tmap, s) = {LastOf(returned, s)}
                   ELSE TuplesOf(subs'[slot].tmap, s)
                          = TuplesOf(subs[slot].tmap, s)

\* C33: the tuple snapshot of a subscription holds at most one tuple per
\* scope; expand with a tuple of a scope already present replaces the earlier
\* tuple and keeps the tuples of all other scopes, and expand returns the
\* canonical forms of exactly the tuples passed in that call.
C33_ExpandMergesByScope ==
    /\ [](\A slot \in Slots : OnePerScope(subs[slot].tmap))
    /\ [][ExpandStep]_vars

\* a subscription holding tuples of two scopes, the one of "S" being the
\* second value that was expanded for "S"
C33_Witness ==
    \E slot \in Slots :
      /\ subs[slot].kind = "scopes"
      /\ Len(subs[slot].tmap) = 2
      /\ subs[slot].tmap[1] = Tuple("S", 2, 1)
      /\ subs[slot].tmap[2].scope = "T"

\* ---------------------------------------------------------------- C34
\* the snapshot of a subscription holds, for each of its pairs, the tuple
\* that its last expand of the pair returned
StartReturnsExpanded ==
    \A slot \in Slots :
      SubStart(slot) /\ ~subs[slot].stopped =>
        subStart(subs[slot], slot, scopeCache).tuples = subs[slot].tmap

\* C34: the tuples that expand() of a subscription returned are the identical
\* tuple objects that its following start() returns for the same pairs,
\* whatever start and stop calls of other subscriptions on those pairs come
\* between the two calls.
C34_StartReturnsExpanded == [][StartReturnsExpanded]_vars

\* ---------------------------------------------------------------- C35
\* Callers of a deep cache of their own, as in the tests of createDeepCache:
\* two key objects, key sequences of up to MaxKeys keys, the empty one
\* included.
Keys == {"first", "second"}

RECURSIVE KeySeqs(_)
KeySeqs(n) ==
    IF n = 0 THEN {<<>>}
    ELSE KeySeqs(n - 1)
           \cup {Append(d, k) : d \in {e \in KeySeqs(n - 1) : Len(e) = n - 1},
                                k \in Keys}

Memoized(m) ==
    /\ memoize' = m
    /\ UNCHANGED <<scopeCache, cleanupsRun, releasedSubscriptions, subs,
                   moleculeCache, dependencyCache, entries, msubs, runCount,
                   thrown, callerBindings, otherInjector>>

\* memoize.deepCache(fn, () => {}, deps)
DeepCacheCall(deps) ==
    /\ memoize.created < MaxCreated
    /\ Memoized(deepCache(memoize, deps))

\* memoize.upsert(fn, deps)
UpsertCall(deps) ==
    /\ memoize.created < MaxCreated
    /\ Memoized(upsert(memoize, deps))

\* memoize.remove(...deps)
RemoveCall(deps) == Memoized(remove(memoize, deps))

\* memoize.get(deps)
GetCall(deps) == Memoized(get(memoize, deps))

NextCache ==
    \/ \E deps \in KeySeqs(MaxKeys) : DeepCacheCall(deps)
    \/ \E deps \in KeySeqs(MaxKeys) : UpsertCall(deps)
    \/ \E deps \in KeySeqs(MaxKeys) : RemoveCall(deps)
    \/ \E deps \in KeySeqs(MaxKeys) : GetCall(deps)

SpecCache == Init /\ [][NextCache]_vars

DeepCacheStep ==
    \A deps \in KeySeqs(MaxKeys) :
      DeepCacheCall(deps) =>
        IF deps = <<>>
          THEN memoize'.threw /\ memoize'.cache = memoize.cache
                 /\ memoize'.created = memoize.created
        ELSE IF getWeakCacheItem(memoize.cache, deps) # 0
          THEN /\ ~memoize'.threw
               /\ memoize'.returned = getWeakCacheItem(memoize.cache, deps)
               /\ memoize'.created = memoize.created
               /\ memoize'.cache = memoize.cache
        ELSE /\ ~memoize'.threw
             /\ memoize'.created = memoize.created + 1
             /\ memoize'.returned = memoize'.created
             /\ getWeakCacheItem(memoize'.cache, deps) = memoize'.returned
             /\ \A other \in KeySeqs(MaxKeys) \ {deps} :
                  getWeakCacheItem(memoize'.cache, other)
                    = getWeakCacheItem(memoize.cache, other)

UpsertStep ==
    \A deps \in KeySeqs(MaxKeys) :
      UpsertCall(deps) =>
        IF deps = <<>>
          THEN memoize'.threw /\ memoize'.cache = memoize.cache
                 /\ memoize'.created = memoize.created
          ELSE ~memoize'.threw

\* C35: the deep cache memoizes per ordered key sequence: deepCache with a key
\* sequence that already holds a value returns that value without calling
\* createFn, the same keys in another order are another slot, and deepCache
\* and upsert fail when the key sequence is empty.
C35_DeepCacheMemoizes == [][DeepCacheStep /\ UpsertStep]_vars

\* the two orders of the two keys hold the values of two createFn calls, and
\* the last call was a deepCache that found the first of them
C35_Witness ==
    /\ getWeakCacheItem(memoize.cache, <<"first", "second">>) = 1
    /\ getWeakCacheItem(memoize.cache, <<"second", "first">>) = 2
    /\ memoize.call = <<"deepCache", <<"first", "second">>>>
    /\ memoize.returned = 1
    /\ memoize.created = 2

\* ---------------------------------------------------------------- C36
RemoveStep ==
    \A deps \in KeySeqs(MaxKeys) :
      RemoveCall(deps) =>
        /\ getWeakCacheItem(memoize'.cache, deps) = 0
        /\ \A other \in KeySeqs(MaxKeys) \ {deps} :
             getWeakCacheItem(memoize'.cache, other)
               = getWeakCacheItem(memoize.cache, other)
        /\ getWeakCacheItem(memoize.cache, deps) = 0
             => memoize'.cache = memoize.cache

\* C36: remove(keys) on the deep cache clears only the value stored at exactly
\* that key sequence: the values stored at every proper prefix of it, at every
\* extension of it and at every other sequence remain retrievable, and
\* removing a path that is absent changes nothing.
C36_RemoveClearsOneSlot == [][RemoveStep]_vars

\* remove(first) has cleared the one of three values that was stored under
\* [first]; [first, second] and [second] still hold theirs
C36_Witness ==
    /\ memoize.call = <<"remove", <<"first">>>>
    /\ memoize.created = 3
    /\ getWeakCacheItem(memoize.cache, <<"first">>) = 0
    /\ getWeakCacheItem(memoize.cache, <<"first", "second">>) # 0
    /\ getWeakCacheItem(memoize.cache, <<"second">>) # 0
    /\ getWeakCacheItem(memoize.cache, <<"first", "second">>)
         # getWeakCacheItem(memoize.cache, <<"second">>)
    /\ {1, 2, 3} \ {getWeakCacheItem(memoize.cache, <<"first", "second">>),
                    getWeakCacheItem(memoize.cache, <<"second">>)} # {}

\* ---------------------------------------------------------------- C37
\* the tuples an entry is backed by: those of its path and the default
\* tuples of the scopes it read by default
BackingTuples(e) ==
    Range(Tail(entries[e].path))
      \cup {DefaultTuple(s) : s \in Range(entries[e].deps.defaultScopes)}

MountedIsBacked(e) ==
    /\ CacheGet(moleculeCache, entries[e].path) = e
    /\ \A t \in BackingTuples(e) :
         /\ scopeCache[Pair(t)].present
         /\ scopeCache[Pair(t)].references # {}

\* C37: every entry whose mounted flag is set is the value stored in the cache
\* of the injector at the entry's own path, and each of its backing pairs has
\* a live lease record with at least one reference, after any sequence of
\* get, use, useLazily, start and stop.
C37_MountedIsBacked ==
    \A e \in 1..Len(entries) : entries[e].isMounted => MountedIsBacked(e)

\* ---------------------------------------------------------------- C38
\* the entries an entry was constructed from, itself included
RECURSIVE Closure(_)
Closure(e) ==
    {e} \cup UNION {Closure(b) : b \in Range(entries[e].deps.buddies)}

\* the live handles whose entry is e or was constructed from e
ResolversOf(e) ==
    {slot \in Slots : Active(slot) /\ e \in Closure(msubs[slot].cacheValue)}

\* the live handles that lease a pair of a scope of the caller that backs e
SharersOf(e) ==
    {slot \in Slots :
       \E p \in BackingPairs(e) : p[1] \in UserScopes /\ Holds(slot, p)}

LastResolverStopStep ==
    \A slot \in Slots :
      Active(slot) /\ Stop(slot) =>
        \A e \in Closure(msubs[slot].cacheValue) :
          ResolversOf(e) = {slot} /\ SharersOf(e) \subseteq {slot} =>
            /\ ~entries'[e].isMounted
            /\ CacheGet(moleculeCache', entries[e].path) # e
            /\ \A c \in MountCleanups(e, entries[e].mounts) : Count(c)' = 1

\* C38: the stop() of the last subscription that resolved a molecule runs the
\* molecule's cleanups and purges its entry during that call, also while
\* subscriptions that resolved only other, unrelated molecules (and lease no
\* pair of the caller's scopes that backs the entry) are active on the same
\* injector.
C38_LastStopPurges == [][LastResolverStopStep]_vars

\* ---------------------------------------------------------------- C39
\* the ScopeSubscriptionImpl objects that may exist
SubIds == {SubId(slot, gen) : slot \in Slots, gen \in 1..MaxSubs}

NoEmptyRecord ==
    \A p \in Pairs : scopeCache[p].present => scopeCache[p].references # {}

\* start() leaves the subscription in the record of each of its tuples
StartAcquires ==
    \A slot \in Slots :
      SubStart(slot) =>
        \A t \in Range(subs'[slot].tmap) :
          /\ scopeCache'[Pair(t)].present
          /\ SubId(slot, subs'[slot].gen) \in scopeCache'[Pair(t)].references

\* only the stop of a subscription takes it out of a record
KeptUntilStop ==
    \A id \in SubIds, p \in Pairs :
      id \in scopeCache[p].references /\ id \notin releasedSubscriptions' =>
        /\ scopeCache'[p].present
        /\ id \in scopeCache'[p].references

\* C39: a lease record of a (scope, value) pair is never present with an
\* empty reference set, and every pair of the tuples that the last start() of
\* a subscription acquired has a record containing that subscription until
\* the subscription stops.
C39_RecordsHoldReferences ==
    []NoEmptyRecord /\ [][StartAcquires /\ KeptUntilStop]_vars

\* two subscriptions were started on the pair (S, 1); one has stopped, and
\* the record still lists the other
C39_Witness ==
    \E a, b \in Slots :
      /\ a # b
      /\ SubId(a, subs[a].gen) \in releasedSubscriptions
      /\ Tuple("S", 1, 1) \in Range(subs[a].tmap)
      /\ Tuple("S", 1, 1) \in Range(subs[b].tmap)
      /\ scopeCache[<<"S", 1>>].present
      /\ scopeCache[<<"S", 1>>].references = {SubId(b, subs[b].gen)}

\* ---------------------------------------------------------------- C40
StoppedIsReleased ==
    \A slot \in Slots :
      SubStop(slot) =>
        \A p \in Pairs :
          SubId(slot, subs[slot].gen) \notin scopeCache'[p].references

\* C40: after stop() has returned, the stopped subscription is a member of no
\* record's reference set, whatever expand and start calls preceded the stop,
\* expand calls after start that replace the tuple of a leased scope
\* included.
C40_StoppedIsReleased == [][StoppedIsReleased]_vars

====
